---- MODULE Spec2Model ----
(***************************************************************************)
(* A model of SleeperADPMerge/sleeper_scraper.py (class SleeperAPIExporter):*)
(* the name normalizer, the fuzzy matcher, the merge of the two ranking     *)
(* sources into the roster table, the player filter, the height parser and  *)
(* the cache of get_data.                                                   *)
(*                                                                          *)
(* Strings are sequences of characters; a character is a one-character      *)
(* string, except that a code point outside ASCII, and the backquote, is   *)
(* written by its name ("U+00E9", "U+0060").                                *)
(***************************************************************************)
EXTENDS Integers, Sequences, FiniteSets, TLC

(***************************************************************************)
(* Bounds of the model.                                                     *)
(***************************************************************************)
MaxNameLen == 4
MaxPlayers == 2
MaxRows == 2
MaxUniverse == 2

(***************************************************************************)
(* Strings.                                                                 *)
(***************************************************************************)
UpperChars == <<"A","B","C","D","E","F","G","H","I","J","K","L","M",
                "N","O","P","Q","R","S","T","U","V","W","X","Y","Z","U+00C9">>
LowerChars == <<"a","b","c","d","e","f","g","h","i","j","k","l","m",
                "n","o","p","q","r","s","t","u","v","w","x","y","z","U+00E9">>

\* str.lower() of one character
LowerChar(c) ==
    IF \E i \in DOMAIN UpperChars : UpperChars[i] = c
    THEN LowerChars[CHOOSE i \in DOMAIN UpperChars : UpperChars[i] = c]
    ELSE c

\* str.lower()
StrLower(s) == [i \in DOMAIN s |-> LowerChar(s[i])]

\* the characters str.strip() and str.split() treat as white space
WhiteSpace == {" ", "\t"}

\* str.strip()
StrStrip(s) ==
    LET keep == {i \in DOMAIN s : s[i] \notin WhiteSpace}
    IN  IF keep = {} THEN <<>>
        ELSE SubSeq(s, CHOOSE i \in keep : \A j \in keep : i <= j,
                       CHOOSE i \in keep : \A j \in keep : j <= i)

\* unicodedata.normalize(NFD, c) of one character
Decompose(c) ==
    IF c = "U+00E9" THEN <<"e", "U+0301">>
    ELSE IF c = "U+00C9" THEN <<"E", "U+0301">>
    ELSE <<c>>

RECURSIVE NFD(_)
\* unicodedata.normalize(NFD, s)
NFD(s) == IF s = <<>> THEN <<>> ELSE Decompose(Head(s)) \o NFD(Tail(s))

\* the characters of unicodedata category Mn (combining marks)
IsMn(c) == c \in {"U+0301"}

\* the join over the characters whose unicodedata category is not Mn
DropMn(s) == SelectSeq(s, LAMBDA c : ~IsMn(c))

\* s.startswith(p) at offset i (1-based): s[i .. i+len(p)-1] = p
MatchAt(s, p, i) ==
    /\ i + Len(p) - 1 <= Len(s)
    /\ \A k \in 1..Len(p) : s[i + k - 1] = p[k]

\* s.endswith(suffix)
EndsWith(s, suffix) ==
    /\ Len(suffix) <= Len(s)
    /\ MatchAt(s, suffix, Len(s) - Len(suffix) + 1)

\* old in s
Contains(s, old) == \E i \in 1..Len(s) : MatchAt(s, old, i)

RECURSIVE StrReplace(_, _, _)
\* s.replace(old, new) for a non-empty old: left to right, non-overlapping
StrReplace(s, old, new) ==
    IF s = <<>> THEN <<>>
    ELSE IF MatchAt(s, old, 1)
         THEN new \o StrReplace(SubSeq(s, Len(old) + 1, Len(s)), old, new)
         ELSE <<Head(s)>> \o StrReplace(Tail(s), old, new)

RECURSIVE Collapse(_, _)
\* join of s.split() with a space: words separated by single spaces, none at the ends
Collapse(s, pendingSpace) ==
    IF s = <<>> THEN <<>>
    ELSE IF Head(s) \in WhiteSpace THEN Collapse(Tail(s), TRUE)
    ELSE (IF pendingSpace THEN <<" ">> ELSE <<>>) \o <<Head(s)>>
         \o Collapse(Tail(s), FALSE)

JoinSplit(s) == Collapse(StrStrip(s), FALSE)

(***************************************************************************)
(* normalize_player_name                                                    *)
(***************************************************************************)
suffixes == << <<" ","j","r",".">>, <<" ","j","r">>, <<" ","s","r",".">>,
               <<" ","s","r">>, <<" ","i","i","i">>, <<" ","i","i">>,
               <<" ","i","v">>, <<" ","v">> >>

\* the table without the nickname of Marquise Brown
name_replacements_noNickname ==
    << << <<"k","e","n","n","e","t","h">>, <<"k","e","n">> >>,
       << <<"m","i","c","h","a","e","l">>, <<"m","i","k","e">> >>,
       << <<"r","o","b","e","r","t">>, <<"b","o","b">> >>,
       << <<"w","i","l","l","i","a","m">>, <<"w","i","l","l">> >>,
       << <<"c","h","r","i","s","t","o","p","h","e","r">>, <<"c","h","r","i","s">> >>,
       << <<"m","a","t","t","h","e","w">>, <<"m","a","t","t">> >>,
       << <<"a","n","t","h","o","n","y">>, <<"t","o","n","y">> >>,
       << <<"j","o","s","h","u","a">>, <<"j","o","s","h">> >> >>

\* the dict name_replacements, in insertion order
name_replacements ==
    << << <<"k","e","n","n","e","t","h">>, <<"k","e","n">> >>,
       << <<"m","i","c","h","a","e","l">>, <<"m","i","k","e">> >>,
       << <<"r","o","b","e","r","t">>, <<"b","o","b">> >>,
       << <<"w","i","l","l","i","a","m">>, <<"w","i","l","l">> >>,
       << <<"c","h","r","i","s","t","o","p","h","e","r">>, <<"c","h","r","i","s">> >>,
       << <<"m","a","t","t","h","e","w">>, <<"m","a","t","t">> >>,
       << <<"a","n","t","h","o","n","y">>, <<"t","o","n","y">> >>,
       << <<"j","o","s","h","u","a">>, <<"j","o","s","h">> >>,
       << <<"m","a","r","q","u","i","s","e">>,
          <<"h","o","l","l","y","w","o","o","d">> >> >>

RECURSIVE StripSuffixes(_, _)
\* the loop over suffixes: every suffix of the list is tried once, in order,
\* on the string as the earlier removals left it (the loop has no break)
StripSuffixes(s, k) ==
    IF k > Len(suffixes) THEN s
    ELSE IF EndsWith(s, suffixes[k])
         THEN StripSuffixes(StrStrip(SubSeq(s, 1, Len(s) - Len(suffixes[k]))), k + 1)
         ELSE StripSuffixes(s, k + 1)

\* the chain with the apostrophe turned into a space, like the hyphen
RemovePunctuation_apostropheToSpace(s) ==
    StrReplace(StrReplace(StrReplace(StrReplace(s, <<".">>, <<>>),
                                     <<"-">>, <<" ">>), <<"'">>, <<" ">>), <<"U+0060">>, <<>>)

\* the chain of four replace calls: period, apostrophe and backquote are
\* removed and a hyphen becomes a space
RemovePunctuation(s) ==
    StrReplace(StrReplace(StrReplace(StrReplace(s, <<".">>, <<>>),
                                     <<"-">>, <<" ">>), <<"'">>, <<>>), <<"U+0060">>, <<>>)

RECURSIVE ApplyReplacements(_, _)
\* the loop over name_replacements.items(), in insertion order
ApplyReplacements(s, k) ==
    IF k > Len(name_replacements) THEN s
    ELSE ApplyReplacements(
             StrReplace(s, name_replacements[k][1], name_replacements[k][2]), k + 1)

\* normalize_player_name(name) for a string name (empty when name is empty)
normalize_player_name(name) ==
    IF name = <<>> THEN <<>>
    ELSE JoinSplit(ApplyReplacements(RemovePunctuation(
             StripSuffixes(DropMn(NFD(StrStrip(StrLower(name)))), 1)), 1))

(***************************************************************************)
(* difflib.SequenceMatcher(None, a, b).ratio(), as fuzzy_match_players      *)
(* uses it.  No character is junk: isjunk is None and the automatic junk    *)
(* heuristic needs a second string of 200 characters or more.  A ratio is   *)
(* the pair <<numerator, denominator>> of the float the code computes.      *)
(***************************************************************************)
RECURSIVE RunLen(_, _, _, _, _, _)
\* the length of the longest k with a[i..i+k-1] = b[j..j+k-1] inside the
\* ranges ending at ahi and bhi
RunLen(a, b, i, j, ahi, bhi) ==
    IF i > ahi \/ j > bhi \/ a[i] # b[j] THEN 0
    ELSE 1 + RunLen(a, b, i + 1, j + 1, ahi, bhi)

\* of two blocks <<i, j, k>>, the earlier one r unless the later one is
\* longer: a block replaces the best one only when it is longer
Longer(r, rest) == IF r[3] > 0 /\ r[3] >= rest[3] THEN r ELSE rest

RECURSIVE RowBest(_, _, _, _, _, _)
\* the scan of find_longest_match over the starts j.. in b for one start i
\* in a: the longest block, and of the longest the one starting earliest
RowBest(a, b, i, j, ahi, bhi) ==
    IF j > bhi THEN <<i, j, 0>>
    ELSE Longer(<<i, j, RunLen(a, b, i, j, ahi, bhi)>>,
                RowBest(a, b, i, j + 1, ahi, bhi))

RECURSIVE LongestFrom(_, _, _, _, _, _)
\* the scan over the starts i.. in a: the longest block, and of the longest
\* the one starting earliest in a
LongestFrom(a, b, i, ahi, blo, bhi) ==
    IF i > ahi THEN <<i, blo, 0>>
    ELSE Longer(RowBest(a, b, i, blo, ahi, bhi),
                LongestFrom(a, b, i + 1, ahi, blo, bhi))

\* find_longest_match(alo, ahi, blo, bhi) on the inclusive 1-based ranges
\* alo..ahi and blo..bhi: <<i, j, k>>, the longest block, of those the one
\* starting earliest in a, of those the one starting earliest in b
find_longest_match(a, b, alo, ahi, blo, bhi) ==
    Longer(LongestFrom(a, b, alo, ahi, blo, bhi), <<alo, blo, 0>>)

RECURSIVE MatchingSize(_, _, _, _, _, _)
RECURSIVE AroundBlock(_, _, _, _, _, _, _)
\* the size of the block m, and the sizes of the matching blocks to its left
\* and to its right
AroundBlock(a, b, alo, ahi, blo, bhi, m) ==
    IF m[3] = 0 THEN 0
    ELSE m[3] + MatchingSize(a, b, alo, m[1] - 1, blo, m[2] - 1)
              + MatchingSize(a, b, m[1] + m[3], ahi, m[2] + m[3], bhi)

\* the sum of the sizes of get_matching_blocks(): the longest block, then
\* the same to its left and to its right
MatchingSize(a, b, alo, ahi, blo, bhi) ==
    AroundBlock(a, b, alo, ahi, blo, bhi,
                find_longest_match(a, b, alo, ahi, blo, bhi))

\* ratio(): 2.0 * matches / (len(a) + len(b)), and 1.0 for two empty strings
ratio(a, b) ==
    IF Len(a) + Len(b) = 0 THEN <<1, 1>>
    ELSE <<2 * MatchingSize(a, b, 1, Len(a), 1, Len(b)), Len(a) + Len(b)>>

\* comparisons of two ratios
RatioGT(r, s) == r[1] * s[2] > s[1] * r[2]
RatioGE(r, s) == r[1] * s[2] >= s[1] * r[2]

(***************************************************************************)
(* The state.  Three parts of the program are modelled, each with its own   *)
(* specification: the normalizer applied to a name and to its own result    *)
(* (SpecNorm), export_to_excel driving merge_ranking_data (SpecMerge), and  *)
(* process_players_data (SpecFilter).                                       *)
(***************************************************************************)
VARIABLES
    n_pc,           \* normalizer: "start", "once", "twice"
    n_name,         \* the name given to normalize_player_name
    n_once,         \* normalize_player_name(name)
    n_twice,        \* normalize_player_name of that result
    pc,             \* export_to_excel: "idle", "load", "ffpc", "underdog",
                    \* "merged", "failed", "exported"
    players_df,     \* the roster table export_to_excel holds: a sequence of
                    \* rows, each a function from column name to value
    ffpc_df,        \* ranking_data['ffpc']: a sequence of ranking rows
    underdog_df,    \* ranking_data['underdog']
    ffpc_i,         \* rows of ffpc_df the first loop has completed
    ud_i,           \* rows of underdog_df the second loop has completed
    match_stats,    \* the match_stats dict of merge_ranking_data
    exported,       \* the table written to the Players sheet
    f_pc,           \* process_players_data: "idle", "start", "loop", "done"
    players_data,   \* the player universe, in the order of its items()
    league_data,    \* the league configuration, or None
    valid_fantasy_positions,
    processed_count,
    filter_stats,   \* the six counters
    players_list,   \* the roster entries built so far
    returned_df,    \* the table process_players_data returns
    merge_run,      \* "first", or the table a second merge was given:
                    \* "returned" by the first merge, or "passed" to it
    first_result,   \* the table and the statistics the first merge returned
    fz_pc,          \* fuzzy_match_players: "idle", "start", "done"
    fz_name,        \* its argument ranking_name
    fz_df,          \* its argument players_df
    fz_threshold,   \* its argument threshold
    fz_result,      \* the tuple it returned
    h_pc,           \* parse_height: "idle", "start", "done"
    height_value,   \* its argument
    h_result,       \* the value it returned
    cache_file,     \* cache/sleeper_data.pkl: absent, a snapshot, or damaged
    calls,          \* calls of get_data so far
    last_call       \* the last call of get_data: its arguments, what it
                    \* did and what it returned

normVars  == <<n_pc, n_name, n_once, n_twice>>
mergeVars == <<pc, players_df, ffpc_df, underdog_df, ffpc_i, ud_i,
               match_stats, exported>>
filterVars == <<f_pc, players_data, league_data, valid_fantasy_positions,
                processed_count, filter_stats, players_list, returned_df>>
rerunVars == <<merge_run, first_result>>
fuzzyVars == <<fz_pc, fz_name, fz_df, fz_threshold, fz_result>>
heightVars == <<h_pc, height_value, h_result>>
cacheVars == <<cache_file, calls, last_call>>

\* Python None, and the missing value of pandas
None == "None"
NaN  == "NaN"

\* Series.notna() of one value
notna(v) == v # None /\ v # NaN

(***************************************************************************)
(* The normalizer on its own.                                               *)
(***************************************************************************)
NormAlphabet == {"a", "V", "i", "j", "r", " ", "-", "."}

NormExamples ==
    { <<"P","a","t","r","i","c","k"," ","M","a","h","o","m","e","s"," ","J","r",".">>,
      <<"p","a","t","r","i","c","k"," ","m","a","h","o","m","e","s">>,
      <<"J","a","'","M","a","r","r"," ","C","h","a","s","e">>,
      <<"K","e","n","n","e","t","h"," ","W","a","l","k","e","r">>,
      <<"M","a","r","q","u","i","s","e"," ","B","r","o","w","n">>,
      <<"H","o","l","l","y","w","o","o","d"," ","B","r","o","w","n">>,
      <<"J","o","s","U+00E9","\t","U+0060","A","l"," ","I","I","I"," ","J","r",".">> }

NormInputs ==
    UNION {[1..n -> NormAlphabet] : n \in 0..MaxNameLen} \cup NormExamples

NormIdle ==
    /\ n_pc = "idle"
    /\ n_name = <<>>
    /\ n_once = <<>>
    /\ n_twice = <<>>

NormInit ==
    /\ n_pc = "start"
    /\ n_name \in NormInputs
    /\ n_once = <<>>
    /\ n_twice = <<>>

\* normalize_player_name(name)
NormalizeOnce ==
    /\ n_pc = "start"
    /\ n_once' = normalize_player_name(n_name)
    /\ n_pc' = "once"
    /\ UNCHANGED <<n_name, n_twice>>
    /\ UNCHANGED <<mergeVars, rerunVars, filterVars, fuzzyVars, heightVars, cacheVars>>

\* normalize_player_name applied to an already normalized name
NormalizeAgain ==
    /\ n_pc = "once"
    /\ n_twice' = normalize_player_name(n_once)
    /\ n_pc' = "twice"
    /\ UNCHANGED <<n_name, n_once>>
    /\ UNCHANGED <<mergeVars, rerunVars, filterVars, fuzzyVars, heightVars, cacheVars>>

NormNext == NormalizeOnce \/ NormalizeAgain

(***************************************************************************)
(* fuzzy_match_players                                                      *)
(***************************************************************************)
\* best_match = None: no row label (the labels of the roster are 1, 2, ...)
NoMatch == 0

\* the default of the parameter threshold, 0.8
DefaultThreshold == <<8, 10>>

\* a Python value with its kind: a number (a ratio) or a tuple
Number(r) == [kind |-> "number", value |-> r]
TupleOf(t) == [kind |-> "tuple", value |-> t]

RECURSIVE FuzzyLoop_lastMax(_, _, _, _, _, _)
\* the loop with a row replacing the best one when its similarity is equal too
FuzzyLoop_lastMax(normalized_ranking, df, threshold, k, best_match, best_score) ==
    IF k > Len(df) THEN <<best_match, best_score>>
    ELSE LET player_name == normalize_player_name(df[k]["full_name"])
             similarity == ratio(normalized_ranking, player_name)
         IN  IF RatioGE(similarity, best_score) /\ RatioGE(similarity, threshold)
             THEN FuzzyLoop_lastMax(normalized_ranking, df, threshold, k + 1, k,
                                    similarity)
             ELSE FuzzyLoop_lastMax(normalized_ranking, df, threshold, k + 1,
                                    best_match, best_score)

RECURSIVE FuzzyLoop(_, _, _, _, _, _)
\* the loop over players_df.iterrows(): a row replaces the best one when its
\* similarity is above the best score and at or above the threshold
FuzzyLoop(normalized_ranking, df, threshold, k, best_match, best_score) ==
    IF k > Len(df) THEN <<best_match, best_score>>
    ELSE LET player_name == normalize_player_name(df[k]["full_name"])
             similarity == ratio(normalized_ranking, player_name)
         IN  IF RatioGT(similarity, best_score) /\ RatioGE(similarity, threshold)
             THEN FuzzyLoop(normalized_ranking, df, threshold, k + 1, k, similarity)
             ELSE FuzzyLoop(normalized_ranking, df, threshold, k + 1,
                            best_match, best_score)

\* fuzzy_match_players(ranking_name, players_df, threshold): the returned
\* tuple is (best_match, X) where X is best_score when a match was found and
\* the tuple (None, 0) otherwise
fuzzy_match_players(ranking_name, df, threshold) ==
    LET r == FuzzyLoop(normalize_player_name(ranking_name), df, threshold, 1,
                       NoMatch, <<0, 1>>)
    IN  <<r[1], IF r[1] # NoMatch THEN Number(r[2]) ELSE TupleOf(<<None, 0>>)>>

(***************************************************************************)
(* merge_ranking_data                                                       *)
(***************************************************************************)
FfpcCols == <<"ffpc_adp", "ffpc_etr_rank", "ffpc_delta", "ffpc_pos_rank">>
UdCols   == <<"ud_adp", "ud_etr_rank", "ud_delta", "ud_pos_rank">>
ranking_columns == FfpcCols \o UdCols

\* the dict of counters and lists created at the start of a merge
InitialStats ==
    [ffpc_matched |-> 0, ffpc_fuzzy_matched |-> 0, ffpc_unmatched |-> <<>>,
     underdog_matched |-> 0, underdog_fuzzy_matched |-> 0,
     underdog_unmatched |-> <<>>, players_with_rankings |-> 0]

\* a table row with more columns, and with fewer
WithColumns(row, more) == [c \in DOMAIN row \cup DOMAIN more |->
                              IF c \in DOMAIN more THEN more[c] ELSE row[c]]
DropColumns(row, cols) == [c \in DOMAIN row \ cols |-> row[c]]

\* the first label of a non-empty set of row labels (matches.index[0])
First(S) == CHOOSE i \in S : \A j \in S : i <= j

\* the outcome of a step of the merge: the roster table and the statistics as
\* the step left them, and whether it raised
Outcome(df, stats, raised) == [df |-> df, stats |-> stats, raised |-> raised]

RECURSIVE WriteFields_keepsFirst(_, _, _, _, _)
\* the assignments that leave alone a field an earlier row has written
WriteFields_keepsFirst(df, player_idx, row, cols, k) ==
    IF k > Len(cols) THEN [df |-> df, raised |-> FALSE]
    ELSE IF cols[k] \notin DOMAIN row THEN [df |-> df, raised |-> TRUE]
    ELSE WriteFields_keepsFirst(
             [df EXCEPT ![player_idx] =
                 IF @[cols[k]] # None THEN @
                 ELSE WithColumns(@, [c \in {cols[k]} |-> row[cols[k]]])],
             player_idx, row, cols, k + 1)

RECURSIVE WriteFields(_, _, _, _, _)
\* the four assignments players_df.loc[player_idx, col] = row[col], in order;
\* reading a column the ranking row does not have raises KeyError and leaves
\* the assignments made before it in the table
WriteFields(df, player_idx, row, cols, k) ==
    IF k > Len(cols) THEN [df |-> df, raised |-> FALSE]
    ELSE IF cols[k] \notin DOMAIN row THEN [df |-> df, raised |-> TRUE]
    ELSE WriteFields([df EXCEPT ![player_idx] =
                          WithColumns(@, [c \in {cols[k]} |-> row[cols[k]]])],
                     player_idx, row, cols, k + 1)

\* a match that writes the four fields and leaves the counter alone
ApplyMatch_noCount(df, stats, player_idx, row, cols, counter) ==
    LET w == WriteFields(df, player_idx, row, cols, 1)
    IN  Outcome(w.df, stats, w.raised)

\* a match: the four fields are written and then the counter is incremented
ApplyMatch(df, stats, player_idx, row, cols, counter) ==
    LET w == WriteFields(df, player_idx, row, cols, 1)
    IN  IF w.raised THEN Outcome(w.df, stats, TRUE)
        ELSE Outcome(w.df, [stats EXCEPT ![counter] = @ + 1], FALSE)

\* an unmatched row that is dropped instead of being appended
AppendUnmatched_dropped(df, stats, row, normalized_ranking_name, list) ==
    Outcome(df, stats, ~({"name", "team", "position"} \subseteq DOMAIN row))

\* an append that records the normalized name as the name of the row
AppendUnmatched_normalizedName(df, stats, row, normalized_ranking_name, list) ==
    IF {"name", "team", "position"} \subseteq DOMAIN row
    THEN Outcome(df, [stats EXCEPT ![list] = Append(@,
                        [name |-> normalized_ranking_name,
                         normalized_name |-> normalized_ranking_name,
                         team |-> row["team"],
                         position |-> row["position"]])], FALSE)
    ELSE Outcome(df, stats, TRUE)

\* the append to an unmatched list; building the dict reads name, team and
\* position of the ranking row
AppendUnmatched(df, stats, row, normalized_ranking_name, list) ==
    IF {"name", "team", "position"} \subseteq DOMAIN row
    THEN Outcome(df, [stats EXCEPT ![list] = Append(@,
                        [name |-> row["name"],
                         normalized_name |-> normalized_ranking_name,
                         team |-> row["team"],
                         position |-> row["position"]])], FALSE)
    ELSE Outcome(df, stats, TRUE)

\* the body of the loop over ffpc_df.iterrows() for one ranking row
ffpc_row_step(df, stats, row) ==
    IF "name" \notin DOMAIN row THEN Outcome(df, stats, TRUE)
    ELSE
    LET normalized_ranking_name == normalize_player_name(row["name"])
        matches == {i \in DOMAIN df :
                       df[i]["normalized_name"] = normalized_ranking_name}
    IN  IF Cardinality(matches) = 1
        THEN ApplyMatch(df, stats, First(matches), row, FfpcCols, "ffpc_matched")
        ELSE IF Cardinality(matches) > 1
        THEN IF "team" \notin DOMAIN row THEN Outcome(df, stats, TRUE)
             ELSE LET same == {i \in matches : df[i]["team"] = row["team"]}
                  IN  IF same # {}
                      THEN ApplyMatch(df, stats, First(same), row, FfpcCols,
                                      "ffpc_matched")
                      ELSE AppendUnmatched(df, stats, row,
                                           normalized_ranking_name, "ffpc_unmatched")
        ELSE LET fuzzy_match ==
                     fuzzy_match_players(row["name"], df, DefaultThreshold)[1]
             IN  IF fuzzy_match # NoMatch
                 THEN ApplyMatch(df, stats, fuzzy_match, row, FfpcCols,
                                 "ffpc_fuzzy_matched")
                 ELSE AppendUnmatched(df, stats, row,
                                      normalized_ranking_name, "ffpc_unmatched")

\* the body of the loop over underdog_df.iterrows() for one ranking row: any
\* number of exact matches selects the first of them
underdog_row_step(df, stats, row) ==
    IF "name" \notin DOMAIN row THEN Outcome(df, stats, TRUE)
    ELSE
    LET normalized_ranking_name == normalize_player_name(row["name"])
        matches == {i \in DOMAIN df :
                       df[i]["normalized_name"] = normalized_ranking_name}
    IN  IF Cardinality(matches) > 0
        THEN ApplyMatch(df, stats, First(matches), row, UdCols, "underdog_matched")
        ELSE LET fuzzy_match ==
                     fuzzy_match_players(row["name"], df, DefaultThreshold)[1]
             IN  IF fuzzy_match # NoMatch
                 THEN ApplyMatch(df, stats, fuzzy_match, row, UdCols,
                                 "underdog_fuzzy_matched")
                 ELSE AppendUnmatched(df, stats, row, normalized_ranking_name,
                                      "underdog_unmatched")

\* has_rankings.sum(): the rows with a present ffpc_adp or a present ud_adp
players_with_rankings(df) ==
    Cardinality({i \in DOMAIN df :
                    notna(df[i]["ffpc_adp"]) \/ notna(df[i]["ud_adp"])})

(***************************************************************************)
(* The inputs of a merge: a roster as process_players_data builds it, and   *)
(* the two ranking tables as load_ranking_csvs returns them.  read_csv      *)
(* takes whatever columns the file has, so a table can lack a column.       *)
(***************************************************************************)
PlayerPool ==
    { [full_name |-> <<"A","b","c","d","e">>, team |-> "MIN"],
      [full_name |-> <<"A","b","c","d","e">>, team |-> "KC"],
      [full_name |-> <<"a","b","c","d">>, team |-> "KC"] }

RankingPool ==
    { [name |-> <<"a","b","c","d","e">>, position |-> "WR", team |-> "KC",
       adp |-> "1.5", etr_rank |-> "1", delta |-> "+1", pos_rank |-> "WR1"],
      [name |-> <<"A","b","c","d","e"," ","J","r",".">>, position |-> "WR",
       team |-> "SF",
       adp |-> "2.5", etr_rank |-> "2", delta |-> "+2", pos_rank |-> "WR2"],
      [name |-> <<"a","b","c","d","f">>, position |-> "TE", team |-> "KC",
       adp |-> "3.5", etr_rank |-> "3", delta |-> "+3", pos_rank |-> "TE1"],
      [name |-> <<"Z","z">>, position |-> "QB", team |-> "MIN",
       adp |-> NaN, etr_rank |-> "4", delta |-> "+4", pos_rank |-> "QB1"] }

\* a ranking row under the column names load_ranking_csvs gives a source
FfpcRow(r) ==
    [name |-> r.name, position |-> r.position, team |-> r.team,
     ffpc_adp |-> r.adp, ffpc_etr_rank |-> r.etr_rank,
     ffpc_delta |-> r.delta, ffpc_pos_rank |-> r.pos_rank]
UdRow(r) ==
    [name |-> r.name, position |-> r.position, team |-> r.team,
     ud_adp |-> r.adp, ud_etr_rank |-> r.etr_rank,
     ud_delta |-> r.delta, ud_pos_rank |-> r.pos_rank]

\* the columns a source file may lack
FfpcMissing == {{}, {"ffpc_delta"}}
UdMissing   == {{}, {"ud_delta"}}

SeqsUpTo(S, lo, hi) == UNION {[1..n -> S] : n \in lo..hi}

Rosters == SeqsUpTo(PlayerPool, 1, MaxPlayers)
FfpcTables ==
    {[i \in DOMAIN t |-> DropColumns(FfpcRow(t[i]), miss)] :
        t \in SeqsUpTo(RankingPool, 0, MaxRows), miss \in FfpcMissing}
UdTables ==
    {[i \in DOMAIN t |-> DropColumns(UdRow(t[i]), miss)] :
        t \in SeqsUpTo(RankingPool, 0, MaxRows), miss \in UdMissing}

MergeIdle ==
    /\ pc = "idle"
    /\ players_df = <<>>
    /\ ffpc_df = <<>>
    /\ underdog_df = <<>>
    /\ ffpc_i = 0
    /\ ud_i = 0
    /\ match_stats = InitialStats
    /\ exported = <<>>
    /\ merge_run = "first"
    /\ first_result = [df |-> <<>>, stats |-> InitialStats]

\* export_to_excel after load_ranking_csvs, about to call merge_ranking_data
MergeInit ==
    /\ pc = "start"
    /\ players_df \in Rosters
    /\ ffpc_df \in FfpcTables
    /\ underdog_df \in UdTables
    /\ ffpc_i = 0
    /\ ud_i = 0
    /\ match_stats = InitialStats
    /\ exported = <<>>
    /\ merge_run = "first"
    /\ first_result = [df |-> <<>>, stats |-> InitialStats]

\* the roster table as the start of merge_ranking_data leaves it: with the
\* normalized_name column and the eight ranking columns, all None
Prepared(df) ==
    [i \in DOMAIN df |->
        WithColumns(
            WithColumns(df[i],
                [c \in {"normalized_name"} |->
                    normalize_player_name(df[i]["full_name"])]),
            [c \in {ranking_columns[k] : k \in DOMAIN ranking_columns} |-> None])]

\* the start of a merge that goes on with the statistics it finds
MergeStart_keepsStats ==
    /\ pc = "start"
    /\ players_df # <<>>
    /\ players_df' = Prepared(players_df)
    /\ match_stats' = match_stats
    /\ ffpc_i' = 0
    /\ ud_i' = 0
    /\ pc' = "ffpc"
    /\ UNCHANGED <<ffpc_df, underdog_df, exported>>
    /\ UNCHANGED <<rerunVars, normVars, filterVars, fuzzyVars, heightVars, cacheVars>>

\* merge_ranking_data up to its first loop: the normalized_name column, the
\* statistics, and the eight ranking columns set to None
MergeStart ==
    /\ pc = "start"
    /\ players_df # <<>>
    /\ players_df' = Prepared(players_df)
    /\ match_stats' = InitialStats
    /\ ffpc_i' = 0
    /\ ud_i' = 0
    /\ pc' = "ffpc"
    /\ UNCHANGED <<ffpc_df, underdog_df, exported>>
    /\ UNCHANGED <<rerunVars, normVars, filterVars, fuzzyVars, heightVars, cacheVars>>

\* one iteration of the loop over the FFPC rows; an error leaves
\* merge_ranking_data and is caught in export_to_excel, which holds the
\* table the merge was changing in place
FfpcStep ==
    /\ pc = "ffpc"
    /\ ffpc_i < Len(ffpc_df)
    /\ LET o == ffpc_row_step(players_df, match_stats, ffpc_df[ffpc_i + 1])
       IN  /\ players_df' = o.df
           /\ match_stats' = o.stats
           /\ ffpc_i' = IF o.raised THEN ffpc_i ELSE ffpc_i + 1
           /\ pc' = IF o.raised THEN "failed" ELSE "ffpc"
    /\ UNCHANGED <<ffpc_df, underdog_df, ud_i, exported>>
    /\ UNCHANGED <<rerunVars, normVars, filterVars, fuzzyVars, heightVars, cacheVars>>

\* the end of the loop over the FFPC rows
FfpcLoopEnd ==
    /\ pc = "ffpc"
    /\ ffpc_i = Len(ffpc_df)
    /\ pc' = "underdog"
    /\ UNCHANGED <<players_df, ffpc_df, underdog_df, ffpc_i, ud_i,
                   match_stats, exported>>
    /\ UNCHANGED <<rerunVars, normVars, filterVars, fuzzyVars, heightVars, cacheVars>>

\* one iteration of the loop over the Underdog rows
UnderdogStep ==
    /\ pc = "underdog"
    /\ ud_i < Len(underdog_df)
    /\ LET o == underdog_row_step(players_df, match_stats, underdog_df[ud_i + 1])
       IN  /\ players_df' = o.df
           /\ match_stats' = o.stats
           /\ ud_i' = IF o.raised THEN ud_i ELSE ud_i + 1
           /\ pc' = IF o.raised THEN "failed" ELSE "underdog"
    /\ UNCHANGED <<ffpc_df, underdog_df, ffpc_i, exported>>
    /\ UNCHANGED <<rerunVars, normVars, filterVars, fuzzyVars, heightVars, cacheVars>>

\* the end of merge_ranking_data: the count of players with rankings, the
\* copy of the table without normalized_name, the printed percentages (which
\* divide by the number of rows of each source) and the return
MergeFinish ==
    /\ pc = "underdog"
    /\ ud_i = Len(underdog_df)
    /\ match_stats' = [match_stats EXCEPT
                          !["players_with_rankings"] = players_with_rankings(players_df)]
    /\ IF Len(ffpc_df) = 0 \/ Len(underdog_df) = 0
       THEN /\ pc' = "failed"
            /\ UNCHANGED players_df
       ELSE /\ pc' = "merged"
            /\ players_df' = [i \in DOMAIN players_df |->
                                 DropColumns(players_df[i], {"normalized_name"})]
    /\ UNCHANGED <<ffpc_df, underdog_df, ffpc_i, ud_i, exported>>
    /\ UNCHANGED <<rerunVars, normVars, filterVars, fuzzyVars, heightVars, cacheVars>>

\* export_to_excel writes the table it holds to the Players sheet, after a
\* merge that returned and after one that raised
Export ==
    /\ pc \in {"merged", "failed"}
    /\ exported' = [i \in DOMAIN players_df |->
                       DropColumns(players_df[i], {"first_name", "last_name", "active"})]
    /\ pc' = "exported"
    /\ UNCHANGED <<players_df, ffpc_df, underdog_df, ffpc_i, ud_i, match_stats>>
    /\ UNCHANGED <<rerunVars, normVars, filterVars, fuzzyVars, heightVars, cacheVars>>

MergeNext ==
    \/ MergeStart
    \/ FfpcStep
    \/ FfpcLoopEnd
    \/ UnderdogStep
    \/ MergeFinish
    \/ Export

(***************************************************************************)
(* A second merge with the same ranking tables.  The caller has two tables  *)
(* to give it: the one merge_ranking_data returned (a copy without          *)
(* normalized_name), and the one it had passed, which the merge changed in  *)
(* place and which still has the normalized_name column.                    *)
(***************************************************************************)
HollywoodBrown == <<"H","o","l","l","y","w","o","o","d"," ","B","r","o","w","n">>
MarquiseBrown == <<"M","a","r","q","u","i","s","e"," ","B","r","o","w","n">>

ExamplePlayerPool ==
    { [full_name |-> HollywoodBrown, team |-> "KC"],
      [full_name |-> <<"A","b","c","d","e">>, team |-> "KC"],
      [full_name |-> <<"A","b","c","d","e">>, team |-> "MIN"] }

\* a row matched through the nickname table, a row matched by the fuzzy
\* matcher whose ADP cell is empty in the file, and a row of no roster entry
ExampleRankingPool ==
    { [name |-> MarquiseBrown, position |-> "WR", team |-> "KC",
       adp |-> "1.5", etr_rank |-> "1", delta |-> "+1", pos_rank |-> "WR1"],
      [name |-> <<"a","b","c","d","f">>, position |-> "TE", team |-> "KC",
       adp |-> NaN, etr_rank |-> "3", delta |-> "+3", pos_rank |-> "TE1"],
      [name |-> <<"Z","z">>, position |-> "QB", team |-> "MIN",
       adp |-> "4.5", etr_rank |-> "4", delta |-> "+4", pos_rank |-> "QB1"] }

ExampleRosters == SeqsUpTo(ExamplePlayerPool, 1, MaxPlayers)
ExampleFfpcTables ==
    {[i \in DOMAIN t |-> FfpcRow(t[i])] : t \in SeqsUpTo(ExampleRankingPool, 1, MaxRows)}
ExampleUdTables ==
    {[i \in DOMAIN t |-> UdRow(t[i])] : t \in SeqsUpTo(ExampleRankingPool, 1, MaxRows)}

MergeExamplesInit ==
    /\ pc = "start"
    /\ players_df \in ExampleRosters
    /\ ffpc_df \in ExampleFfpcTables
    /\ underdog_df \in ExampleUdTables
    /\ ffpc_i = 0
    /\ ud_i = 0
    /\ match_stats = InitialStats
    /\ exported = <<>>
    /\ merge_run = "first"
    /\ first_result = [df |-> <<>>, stats |-> InitialStats]

\* the table the first merge was passed, read off the one it returned
PassedTable(returned) ==
    [i \in DOMAIN returned |->
        WithColumns(returned[i],
            [c \in {"normalized_name"} |->
                normalize_player_name(returned[i]["full_name"])])]

\* the caller keeps what the first merge returned and calls
\* merge_ranking_data again, with one of the two tables
MergeAgain ==
    /\ pc = "merged"
    /\ merge_run = "first"
    /\ first_result' = [df |-> players_df, stats |-> match_stats]
    /\ \E which \in {"returned", "passed"} :
          /\ merge_run' = which
          /\ players_df' = IF which = "returned" THEN players_df
                           ELSE PassedTable(players_df)
    /\ pc' = "start"
    /\ UNCHANGED <<ffpc_df, underdog_df, ffpc_i, ud_i, match_stats, exported>>
    /\ UNCHANGED <<normVars, filterVars, fuzzyVars, heightVars, cacheVars>>

MergeExamplesNext == MergeNext \/ MergeAgain

(***************************************************************************)
(* process_players_data.  A Python value whose type matters is a record of  *)
(* its type and its content; a dict is a function from its keys, and a key  *)
(* the dict lacks is outside its domain.                                    *)
(***************************************************************************)
EmptyDict == [c \in {} |-> 0]

\* dict.get(key, default)
Get(d, key, default) == IF key \in DOMAIN d THEN d[key] ELSE default

\* an item of a fantasy_positions list: a string, None, or a nested list
StrItem(v) == [type |-> "str", value |-> v]
NoneItem   == [type |-> "NoneType", value |-> "None"]
ListItem   == [type |-> "list", value |-> "[]"]

\* a list of items, and the default of get('fantasy_positions', [])
ListOf(items) == [type |-> "list", items |-> items]

\* bool(value) of a fantasy_positions value
Truthy(v) == v.type # "NoneType" /\ Len(v.items) > 0

\* the default positions whatever the league says
ValidPositions_alwaysDefault(league) == {"QB", "RB", "WR", "TE", "K", "DEF"}

\* the valid positions: roster_positions of a league that has them, and the
\* six default positions otherwise
ValidPositions(league) ==
    IF league.type = "dict" /\ DOMAIN league.fields # {}
          /\ "roster_positions" \in DOMAIN league.fields
    THEN {league.fields["roster_positions"][k] :
             k \in DOMAIN league.fields["roster_positions"]}
    ELSE {"QB", "RB", "WR", "TE", "K", "DEF"}

InitialFilterStats ==
    [inactive_status |-> 0, duplicate_name |-> 0, no_fantasy_position |-> 0,
     invalid_fantasy_position |-> 0, data_errors |-> 0, kept |-> 0]

duplicate == <<"d","u","p","l","i","c","a","t","e">>

\* the state of the loop after a step: the counters and the entries
Filtered(stats, list) == [stats |-> stats, list |-> list]
Count(stats, list, bucket) == Filtered([stats EXCEPT ![bucket] = @ + 1], list)

\* the status is "inactive" in any letter case
IsInactive(info) ==
    StrLower(Get(info, "status", <<>>)) = <<"i","n","a","c","t","i","v","e">>

\* one of the three names contains "duplicate" in any letter case
IsDuplicate(info) ==
    \E key \in {"full_name", "first_name", "last_name"} :
        Contains(StrLower(Get(info, key, <<>>)), duplicate)

\* the tail of the loop body, from the set() of the positions on, for a
\* list or tuple of positions: set() raises on an unhashable item; kept is
\* incremented before the join, which raises on an item that is no string;
\* the except clause counts a data error
KeepOrReject(info, player_id, valid, stats, list) ==
    LET fantasy_positions == info["fantasy_positions"]
        items == fantasy_positions.items
        player_positions == {items[k].value : k \in {j \in DOMAIN items :
                                                       items[j].type = "str"}}
    IN  IF \E k \in DOMAIN items : items[k].type = "list"
        THEN Count(stats, list, "data_errors")
        ELSE IF player_positions \cap valid = {}
        THEN Count(stats, list, "invalid_fantasy_position")
        ELSE IF \E k \in DOMAIN items : items[k].type # "str"
        THEN Count([stats EXCEPT !["kept"] = @ + 1], list, "data_errors")
        ELSE Count(stats,
                   Append(list, [player_id |-> player_id,
                                 full_name |-> Get(info, "full_name", <<>>),
                                 team |-> Get(info, "team", ""),
                                 fantasy_positions |->
                                     [k \in DOMAIN items |-> items[k].value]]),
                   "kept")

\* the loop body with the duplicate rule tried before the inactive rule
process_player_duplicateFirst(player, player_id, valid, stats, list) ==
    IF player.type # "dict" THEN Count(stats, list, "data_errors")
    ELSE LET info == player.fields
             fantasy_positions == Get(info, "fantasy_positions", ListOf(<<>>))
         IN  IF IsDuplicate(info) THEN Count(stats, list, "duplicate_name")
             ELSE IF IsInactive(info) THEN Count(stats, list, "inactive_status")
             ELSE IF ~Truthy(fantasy_positions)
             THEN Count(stats, list, "no_fantasy_position")
             ELSE IF fantasy_positions.type \notin {"list", "tuple"}
             THEN Count(stats, list, "invalid_fantasy_position")
             ELSE KeepOrReject(info, player_id, valid, stats, list)

\* the body of the loop over players_data.items() for one player
process_player(player, player_id, valid, stats, list) ==
    IF player.type # "dict" THEN Count(stats, list, "data_errors")
    ELSE LET info == player.fields
             fantasy_positions == Get(info, "fantasy_positions", ListOf(<<>>))
         IN  IF IsInactive(info) THEN Count(stats, list, "inactive_status")
             ELSE IF IsDuplicate(info) THEN Count(stats, list, "duplicate_name")
             ELSE IF ~Truthy(fantasy_positions)
             THEN Count(stats, list, "no_fantasy_position")
             ELSE IF fantasy_positions.type \notin {"list", "tuple"}
             THEN Count(stats, list, "invalid_fantasy_position")
             ELSE KeepOrReject(info, player_id, valid, stats, list)

(***************************************************************************)
(* The inputs of the filter.                                                *)
(***************************************************************************)
StatusChoices ==
    { EmptyDict,
      [status |-> <<"A","c","t","i","v","e">>],
      [status |-> <<"I","n","A","c","t","i","v","e">>] }

NameChoices ==
    { [full_name |-> <<"A","l"," ","B">>, last_name |-> <<"B">>],
      [full_name |-> <<"A","l"," ","d","u","p","l","i","c","a","t","e">>],
      [full_name |-> <<"A","l">>,
       last_name |-> <<"D","U","P","L","I","C","A","T","E">>] }

PositionChoices ==
    { EmptyDict,
      [fantasy_positions |-> ListOf(<<>>)],
      [fantasy_positions |-> [type |-> "str", items |-> <<"Q", "B">>]],
      [fantasy_positions |-> ListOf(<<StrItem("QB")>>)],
      [fantasy_positions |-> ListOf(<<StrItem("LB"), StrItem("DL")>>)],
      [fantasy_positions |-> ListOf(<<StrItem("QB"), NoneItem>>)],
      [fantasy_positions |-> ListOf(<<ListItem, StrItem("QB")>>)] }

PlayerInfos ==
    {[type |-> "dict", fields |-> WithColumns(WithColumns(st, nm), fp)] :
        st \in StatusChoices, nm \in NameChoices, fp \in PositionChoices}
    \cup {[type |-> "str", fields |-> EmptyDict]}

LeagueChoices ==
    { [type |-> "NoneType", fields |-> EmptyDict],
      [type |-> "dict", fields |-> [name |-> "league"]],
      [type |-> "dict", fields |-> [roster_positions |-> <<"LB", "FLEX">>]] }

FilterIdle ==
    /\ f_pc = "idle"
    /\ players_data = <<>>
    /\ league_data = [type |-> "NoneType", fields |-> EmptyDict]
    /\ valid_fantasy_positions = {}
    /\ processed_count = 0
    /\ filter_stats = InitialFilterStats
    /\ players_list = <<>>
    /\ returned_df = <<>>

FilterInit ==
    /\ f_pc = "start"
    /\ players_data \in SeqsUpTo(PlayerInfos, 0, MaxUniverse)
    /\ league_data \in LeagueChoices
    /\ valid_fantasy_positions = {}
    /\ processed_count = 0
    /\ filter_stats = InitialFilterStats
    /\ players_list = <<>>
    /\ returned_df = <<>>

\* an empty universe: the empty table is returned at once
FilterEmpty ==
    /\ f_pc = "start"
    /\ players_data = <<>>
    /\ f_pc' = "done"
    /\ UNCHANGED <<players_data, league_data, valid_fantasy_positions,
                   processed_count, filter_stats, players_list, returned_df>>
    /\ UNCHANGED <<normVars, mergeVars, rerunVars, fuzzyVars, heightVars, cacheVars>>

\* the valid positions and the counters, before the loop
FilterBegin ==
    /\ f_pc = "start"
    /\ players_data # <<>>
    /\ valid_fantasy_positions' = ValidPositions(league_data)
    /\ filter_stats' = InitialFilterStats
    /\ players_list' = <<>>
    /\ processed_count' = 0
    /\ f_pc' = "loop"
    /\ UNCHANGED <<players_data, league_data, returned_df>>
    /\ UNCHANGED <<normVars, mergeVars, rerunVars, fuzzyVars, heightVars, cacheVars>>

\* a loop that a data error ends
FilterStep_stopsAtError ==
    /\ f_pc = "loop"
    /\ processed_count < Len(players_data)
    /\ LET o == process_player(players_data[processed_count + 1],
                               processed_count + 1, valid_fantasy_positions,
                               filter_stats, players_list)
       IN  /\ filter_stats' = o.stats
           /\ players_list' = o.list
           /\ processed_count' =
                 IF o.stats["data_errors"] > filter_stats["data_errors"]
                 THEN Len(players_data) ELSE processed_count + 1
    /\ UNCHANGED <<f_pc, players_data, league_data, valid_fantasy_positions,
                   returned_df>>
    /\ UNCHANGED <<normVars, mergeVars, rerunVars, fuzzyVars, heightVars, cacheVars>>

\* one iteration of the loop over the players: every path of the body, the
\* except clause included, goes on to the next player
FilterStep ==
    /\ f_pc = "loop"
    /\ processed_count < Len(players_data)
    /\ LET o == process_player(players_data[processed_count + 1],
                               processed_count + 1, valid_fantasy_positions,
                               filter_stats, players_list)
       IN  /\ filter_stats' = o.stats
           /\ players_list' = o.list
    /\ processed_count' = processed_count + 1
    /\ UNCHANGED <<f_pc, players_data, league_data, valid_fantasy_positions,
                   returned_df>>
    /\ UNCHANGED <<normVars, mergeVars, rerunVars, fuzzyVars, heightVars, cacheVars>>

\* the end of the loop: the table of the entries is returned
FilterFinish ==
    /\ f_pc = "loop"
    /\ processed_count = Len(players_data)
    /\ returned_df' = players_list
    /\ f_pc' = "done"
    /\ UNCHANGED <<players_data, league_data, valid_fantasy_positions,
                   processed_count, filter_stats, players_list>>
    /\ UNCHANGED <<normVars, mergeVars, rerunVars, fuzzyVars, heightVars, cacheVars>>

FilterNext ==
    \/ FilterEmpty
    \/ FilterBegin
    \/ FilterStep
    \/ FilterFinish


(***************************************************************************)
(* fuzzy_match_players on its own: a call with a ranking name, a roster     *)
(* table and a threshold.                                                   *)
(***************************************************************************)
FuzzyNames ==
    { <<"a","b","c","d","f">>, <<"a","b","c","d","e">>, <<"Z","z">>,
      <<"A","b","c","d"," ","J","r",".">>, <<>> }

FuzzyRosters == SeqsUpTo(PlayerPool, 0, MaxPlayers)

\* the default threshold, one below it and one above it
FuzzyThresholds == {<<1, 2>>, DefaultThreshold, <<9, 10>>}

FuzzyIdle ==
    /\ fz_pc = "idle"
    /\ fz_name = <<>>
    /\ fz_df = <<>>
    /\ fz_threshold = DefaultThreshold
    /\ fz_result = <<NoMatch, Number(<<0, 1>>)>>

FuzzyInit ==
    /\ fz_pc = "start"
    /\ fz_name \in FuzzyNames
    /\ fz_df \in FuzzyRosters
    /\ fz_threshold \in FuzzyThresholds
    /\ fz_result = <<NoMatch, Number(<<0, 1>>)>>

\* fuzzy_match_players(ranking_name, players_df, threshold)
FuzzyCall ==
    /\ fz_pc = "start"
    /\ fz_result' = fuzzy_match_players(fz_name, fz_df, fz_threshold)
    /\ fz_pc' = "done"
    /\ UNCHANGED <<fz_name, fz_df, fz_threshold>>
    /\ UNCHANGED <<normVars, mergeVars, rerunVars, filterVars, heightVars, cacheVars>>

FuzzyNext == FuzzyCall

(***************************************************************************)
(* parse_height.  A number is a record: an int n, a float n/d in lowest     *)
(* terms, None, or the exception a conversion raised.                       *)
(***************************************************************************)
MaxHeightLen == 4

DigitChars == <<"0","1","2","3","4","5","6","7","8","9">>

IsDigitChar(c) == \E i \in DOMAIN DigitChars : DigitChars[i] = c

DigitValue(c) == (CHOOSE i \in DOMAIN DigitChars : DigitChars[i] = c) - 1

\* str.isdigit() over the ASCII digits
IsDigit(s) == s # <<>> /\ \A i \in DOMAIN s : IsDigitChar(s[i])

RECURSIVE DigitsValue(_)
\* the number a string of digits writes
DigitsValue(s) ==
    IF s = <<>> THEN 0
    ELSE 10 * DigitsValue(SubSeq(s, 1, Len(s) - 1)) + DigitValue(s[Len(s)])

RECURSIVE Pow10(_)
Pow10(k) == IF k = 0 THEN 1 ELSE 10 * Pow10(k - 1)

RECURSIVE GCD(_, _)
GCD(a, b) == IF b = 0 THEN a ELSE GCD(b, a % b)

IntOf(n) == [kind |-> "int", n |-> n, d |-> 1]

\* the float n/d, for n >= 0 or n < 0 and d > 0
FloatOf(n, d) ==
    LET g == GCD(IF n < 0 THEN -n ELSE n, d)
    IN  [kind |-> "float", n |-> n \div g, d |-> d \div g]

NoneValue == [kind |-> "None", n |-> 0, d |-> 1]

Raised(exception) == [kind |-> exception, n |-> 0, d |-> 1]

IsNumber(r) == r.kind \in {"int", "float"}

\* int(s) of a string: white space, a sign, decimal digits
int(s) ==
    LET t == StrStrip(s)
        sign == IF t # <<>> /\ t[1] = "-" THEN -1 ELSE 1
        body == IF t # <<>> /\ t[1] \in {"-", "+"} THEN Tail(t) ELSE t
    IN  IF IsDigit(body) THEN IntOf(sign * DigitsValue(body))
        ELSE Raised("ValueError")

\* float(s) of a string: white space, a sign, digits with at most one point
\* and a digit on one side of it at least (no exponent, inf or nan: their
\* letters are not in the alphabet of the inputs)
float(s) ==
    LET t == StrStrip(s)
        sign == IF t # <<>> /\ t[1] = "-" THEN -1 ELSE 1
        body == IF t # <<>> /\ t[1] \in {"-", "+"} THEN Tail(t) ELSE t
        dots == {i \in DOMAIN body : body[i] = "."}
        p == CHOOSE i \in dots : TRUE
        whole == SubSeq(body, 1, p - 1)
        frac == SubSeq(body, p + 1, Len(body))
    IN  IF dots = {}
        THEN IF IsDigit(body) THEN FloatOf(sign * DigitsValue(body), 1)
             ELSE Raised("ValueError")
        ELSE IF /\ Cardinality(dots) = 1
                /\ whole \o frac # <<>>
                /\ \A i \in DOMAIN body : i = p \/ IsDigitChar(body[i])
             THEN FloatOf(sign * DigitsValue(whole \o frac), Pow10(Len(frac)))
             ELSE Raised("ValueError")

RECURSIVE StrSplit(_, _)
\* s.split(sep) for a separator of one character
StrSplit(s, sep) ==
    IF \A i \in DOMAIN s : s[i] # sep THEN <<s>>
    ELSE LET p == CHOOSE i \in DOMAIN s :
                     s[i] = sep /\ \A j \in 1..(i - 1) : s[j] # sep
         IN  <<SubSeq(s, 1, p - 1)>> \o StrSplit(SubSeq(s, p + 1, Len(s)), sep)

\* feet = int(parts[0]); inches = int(parts[1]) if parts[1] else 0;
\* return (feet * 12) + inches -- with the two parts taken the other way round
FeetInches_inchesFirst(parts) ==
    LET feet == int(parts[2])
        inches == IF parts[1] # <<>> THEN int(parts[1]) ELSE IntOf(0)
    IN  IF ~IsNumber(feet) THEN feet
        ELSE IF ~IsNumber(inches) THEN inches
        ELSE IntOf(feet.n * 12 + inches.n)

\* feet = int(parts[0]); inches = int(parts[1]) if parts[1] else 0;
\* return (feet * 12) + inches
FeetInches(parts) ==
    LET feet == int(parts[1])
        inches == IF parts[2] # <<>> THEN int(parts[2]) ELSE IntOf(0)
    IN  IF ~IsNumber(feet) THEN feet
        ELSE IF ~IsNumber(inches) THEN inches
        ELSE IntOf(feet.n * 12 + inches.n)

\* the rest of the try block once the apostrophe branch has rewritten
\* height_str: the dash form, then float
DashOrFloat(height_str) ==
    IF Contains(height_str, <<"-">>) /\ Len(StrSplit(height_str, "-")) = 2
    THEN FeetInches(StrSplit(height_str, "-"))
    ELSE float(height_str)

\* the body of the try block; unquoted is
\* height_str.replace('"', '').replace("'", "'")
TryBlock(height_str) ==
    LET unquoted == StrReplace(StrReplace(height_str, <<"\"">>, <<>>),
                               <<"'">>, <<"'">>)
    IN  IF IsDigit(height_str) THEN int(height_str)
        ELSE IF Contains(height_str, <<"'">>)
             THEN IF Len(StrSplit(unquoted, "'")) = 2
                  THEN FeetInches(StrSplit(unquoted, "'"))
                  ELSE DashOrFloat(unquoted)
             ELSE DashOrFloat(height_str)

\* except (ValueError, IndexError): return None
Except(r) == IF r.kind \in {"ValueError", "IndexError"} THEN NoneValue ELSE r

\* the argument of parse_height: None or a string
NoHeight == [type |-> "NoneType", text |-> <<>>]
HeightStr(s) == [type |-> "str", text |-> s]

parse_height(value) ==
    IF value.type = "NoneType" THEN NoneValue
    ELSE IF StrStrip(value.text) = <<>> THEN NoneValue
    ELSE Except(TryBlock(StrStrip(value.text)))

\* the characters of the heights tried: digits, the separators of the two
\* feet-and-inches forms, the inch mark, the point, a space and a letter
HeightChars == {"6", "2", "'", "\"", "-", ".", " ", "x"}

RECURSIVE StringsOfLen(_, _)
StringsOfLen(chars, k) ==
    IF k = 0 THEN {<<>>}
    ELSE {<<c>> \o s : c \in chars, s \in StringsOfLen(chars, k - 1)}

HeightValues ==
    {NoHeight} \cup
    {HeightStr(s) : s \in UNION {StringsOfLen(HeightChars, k) :
                                     k \in 0..MaxHeightLen}}

HeightIdle ==
    /\ h_pc = "idle"
    /\ height_value = NoHeight
    /\ h_result = NoneValue

HeightInit ==
    /\ h_pc = "start"
    /\ height_value \in HeightValues
    /\ h_result = NoneValue

\* height = self.parse_height(player_info.get('height'))
ParseHeight ==
    /\ h_pc = "start"
    /\ h_result' = parse_height(height_value)
    /\ h_pc' = "done"
    /\ UNCHANGED height_value
    /\ UNCHANGED <<normVars, mergeVars, rerunVars, filterVars, fuzzyVars,
                   cacheVars>>

HeightNext == ParseHeight

(***************************************************************************)
(* get_data and the cache file.  A call of get_data runs to its end: it     *)
(* may load the cache, fetch from the API and save the cache.  The API may  *)
(* fail at any request, and the disk may fail when the cache is written.    *)
(***************************************************************************)
MaxCalls == 3

\* the dict fetch_all_data builds: which parts it holds, and its _metadata
NoData ==
    [players |-> FALSE, league |-> FALSE, matchups |-> <<>>,
     metadata |-> [fetched_at |-> 0, league_id |-> None,
                   included_players |-> FALSE, weeks |-> <<>>]]

\* the cache file: absent, a pickled snapshot, or what a failed write left
\* of it: nothing ("empty") or the beginning of a pickle ("partial")
NoFile == [kind |-> "absent", data |-> NoData]
SnapshotFile(data) == [kind |-> "snapshot", data |-> data]
DamagedFile(kind) == [kind |-> kind, data |-> NoData]

\* what a function returned or raised, or that it was not called
ReturnData(data) == [kind |-> "data", data |-> data, exception |-> None]
ReturnNone == [kind |-> "None", data |-> NoData, exception |-> None]
Raise(exception) ==
    [kind |-> "raised", data |-> NoData, exception |-> exception]
NotCalled == [kind |-> "not called", data |-> NoData, exception |-> None]

\* the API requests fetch_all_data makes when none of them fails
Requests(league_id, include_players, weeks) ==
    (IF include_players THEN 1 ELSE 0)
    + (IF league_id # None THEN 3 + Len(weeks) ELSE 0)

\* fetch_all_data at time now; the request number failing raises (0: none)
fetch_all_data(league_id, include_players, weeks, now, failing) ==
    IF failing > 0 THEN Raise("RequestException")
    ELSE ReturnData(
           [players |-> include_players,
            league |-> league_id # None,
            matchups |-> IF league_id # None THEN weeks ELSE <<>>,
            metadata |-> [fetched_at |-> now, league_id |-> league_id,
                          included_players |-> include_players,
                          weeks |-> weeks]])

\* pickle.load of the open cache file
pickle_load(file) ==
    IF file.kind = "snapshot" THEN ReturnData(file.data)
    ELSE IF file.kind = "empty" THEN Raise("EOFError")
    ELSE Raise("UnpicklingError")

\* the exception classes an except clause naming these classes catches
SubclassesOf(classes) ==
    classes
    \cup (IF "PickleError" \in classes
          THEN {"PicklingError", "UnpicklingError"} ELSE {})
    \cup (IF "IOError" \in classes
          THEN {"OSError", "FileNotFoundError", "PermissionError"} ELSE {})

load_from_cache(file) ==
    IF file.kind = "absent" THEN ReturnNone
    ELSE IF /\ pickle_load(file).kind = "raised"
            /\ pickle_load(file).exception
                   \in SubclassesOf({"PickleError", "IOError"})
         THEN ReturnNone
         ELSE pickle_load(file)

\* the cache file after save_to_cache(data), by what the disk does when
\* the file is opened and written: open(..., 'wb') empties the
\* file before pickle.dump writes, and the OSError of a failed open or
\* write is caught
save_to_cache(file, data, disk) ==
    IF disk = "written" THEN SnapshotFile(data)
    ELSE IF disk = "open fails" THEN file
    ELSE IF disk = "write fails at once" THEN DamagedFile("empty")
    ELSE DamagedFile("partial")

\* get_data: what it did, the cache file it left and what it returned
get_data(file, league_id, include_players, weeks, use_cache, now, failing, disk) ==
    LET loaded == IF use_cache THEN load_from_cache(file) ELSE NotCalled
        fetched == fetch_all_data(league_id, include_players, weeks, now,
                                  failing)
        call == [league_id |-> league_id, include_players |-> include_players,
                 weeks |-> weeks, use_cache |-> use_cache, before |-> file]
    IN  IF loaded.kind \in {"data", "raised"}
        THEN [call |-> call, loaded |-> loaded, fetched |-> NotCalled,
              requests |-> 0, save |-> "not called", cache |-> file,
              result |-> loaded]
        ELSE IF fetched.kind = "raised"
        THEN [call |-> call, loaded |-> loaded, fetched |-> fetched,
              requests |-> failing, save |-> "not called", cache |-> file,
              result |-> fetched]
        ELSE [call |-> call, loaded |-> loaded, fetched |-> fetched,
              requests |-> Requests(league_id, include_players, weeks),
              save |-> disk,
              cache |-> save_to_cache(file, fetched.data, disk),
              result |-> fetched]

NoCall ==
    [call |-> [league_id |-> None, include_players |-> FALSE,
               weeks |-> <<>>, use_cache |-> FALSE, before |-> NoFile],
     loaded |-> NotCalled, fetched |-> NotCalled, requests |-> 0,
     save |-> "not called", cache |-> NoFile, result |-> NotCalled]

\* SleeperAPIExporter(): the cache directory is made, without a cache file
CacheInit ==
    /\ cache_file = NoFile
    /\ calls = 0
    /\ last_call = NoCall

\* exporter.get_data(league_id, include_players, weeks, use_cache)
GetData ==
    /\ calls < MaxCalls
    /\ \E league_id \in {None, "1180"}, include_players \in BOOLEAN,
          weeks \in {<<>>, <<1>>}, use_cache \in BOOLEAN,
          disk \in {"written", "open fails", "write fails at once",
                    "write fails midway"} :
         \E failing \in 0..Requests(league_id, include_players, weeks) :
            /\ last_call' = get_data(cache_file, league_id, include_players,
                                     weeks, use_cache, calls + 1, failing,
                                     disk)
            /\ cache_file' = last_call'.cache
    /\ calls' = calls + 1
    /\ UNCHANGED <<normVars, mergeVars, rerunVars, filterVars, fuzzyVars,
                   heightVars>>

CacheNext == GetData

(***************************************************************************)
(* The specifications.                                                      *)
(***************************************************************************)
vars == <<n_pc, n_name, n_once, n_twice, pc, players_df, ffpc_df,
          underdog_df, ffpc_i, ud_i, match_stats, exported, f_pc,
          players_data, league_data, valid_fantasy_positions,
          processed_count, filter_stats, players_list, returned_df,
          merge_run, first_result, fz_pc, fz_name, fz_df, fz_threshold,
          fz_result, h_pc, height_value, h_result, cache_file, calls,
          last_call>>

InitNorm == NormInit /\ MergeIdle /\ FilterIdle /\ FuzzyIdle /\ HeightIdle
    /\ CacheInit
SpecNorm == InitNorm /\ [][NormNext]_vars

InitMerge == MergeInit /\ NormIdle /\ FilterIdle /\ FuzzyIdle /\ HeightIdle
    /\ CacheInit
SpecMerge == InitMerge /\ [][MergeNext]_vars

InitFilter == FilterInit /\ NormIdle /\ MergeIdle /\ FuzzyIdle /\ HeightIdle
    /\ CacheInit
SpecFilter == InitFilter /\ [][FilterNext]_vars

InitMergeExamples == MergeExamplesInit /\ NormIdle /\ FilterIdle /\ FuzzyIdle /\ HeightIdle
    /\ CacheInit
SpecMergeExamples == InitMergeExamples /\ [][MergeExamplesNext]_vars

InitFuzzy == FuzzyInit /\ NormIdle /\ MergeIdle /\ FilterIdle /\ HeightIdle
    /\ CacheInit
SpecFuzzy == InitFuzzy /\ [][FuzzyNext]_vars

InitHeight == HeightInit /\ NormIdle /\ MergeIdle /\ FilterIdle /\ FuzzyIdle
    /\ CacheInit
SpecHeight == InitHeight /\ [][HeightNext]_vars

InitCache == CacheInit /\ NormIdle /\ MergeIdle /\ FilterIdle /\ FuzzyIdle
    /\ HeightIdle
SpecCache == InitCache /\ [][CacheNext]_vars

(***************************************************************************)
(* Properties of the merge.                                                 *)
(***************************************************************************)
\* the roster table is being merged, or was
Merging == pc \in {"ffpc", "underdog", "merged", "failed", "exported"}

\* a roster row carries none of the ranking fields cols
FieldsAbsent(row, cols) ==
    \A k \in DOMAIN cols : cols[k] \notin DOMAIN row \/ row[cols[k]] = None

\* the ranking fields cols of a roster row are those of the ranking row r
FieldsOf(row, cols, r) ==
    \A k \in DOMAIN cols :
        /\ cols[k] \in DOMAIN row
        /\ cols[k] \in DOMAIN r
        /\ row[cols[k]] = r[cols[k]]

AtomicFields(table) ==
    \A i \in DOMAIN table :
        /\ \/ FieldsAbsent(table[i], FfpcCols)
           \/ \E j \in DOMAIN ffpc_df : FieldsOf(table[i], FfpcCols, ffpc_df[j])
        /\ \/ FieldsAbsent(table[i], UdCols)
           \/ \E j \in DOMAIN underdog_df : FieldsOf(table[i], UdCols, underdog_df[j])

\* C1: in every state of a merge, and in the table the exporter receives,
\* the four ranking fields of a source on a roster entry are all absent or
\* are the four fields of one ranking row of that source.
C1_PartialWritesNeverVisible ==
    AtomicFields(players_df) /\ AtomicFields(exported)

\* the ranking row has the four metric columns of its source
HasColumns(row, cols) == \A k \in DOMAIN cols : cols[k] \in DOMAIN row

\* the roster entries with the normalized name of a ranking row, and those
\* of them with its team
Candidates(row) ==
    {i \in DOMAIN players_df :
        players_df[i]["normalized_name"] = normalize_player_name(row["name"])}
SameTeam(row) == {i \in Candidates(row) : players_df[i]["team"] = row["team"]}

\* a step on the ranking row with several candidates, one of them of the
\* row's team: the first of these gets the fields, the other candidates keep
\* theirs
TeamRule(row, cols) ==
    (HasColumns(row, cols) /\ Cardinality(Candidates(row)) > 1 /\ SameTeam(row) # {})
    => /\ FieldsOf(players_df'[First(SameTeam(row))], cols, row)
       /\ \A i \in Candidates(row) \ {First(SameTeam(row))} :
              \A k \in DOMAIN cols : players_df'[i][cols[k]] = players_df[i][cols[k]]

FfpcStepping == pc = "ffpc" /\ ffpc_i < Len(ffpc_df)
UdStepping   == pc = "underdog" /\ ud_i < Len(underdog_df)

\* C2: for each of the two sources, when several roster entries have the
\* row's normalized name, the first of them in table order whose team is
\* the row's team receives the four fields and the other candidates are
\* left as they were.
C2_FirstCandidateOfTheTeam ==
    [][ /\ FfpcStepping => TeamRule(ffpc_df[ffpc_i + 1], FfpcCols)
        /\ UdStepping => TeamRule(underdog_df[ud_i + 1], UdCols) ]_vars

\* a step on a ranking row with several candidates, none of the row's team:
\* the row joins the unmatched list and nothing else changes
NoTeamRule(row, cols, list, exact, fuzzy) ==
    (HasColumns(row, cols) /\ Cardinality(Candidates(row)) > 1 /\ SameTeam(row) = {})
    => /\ Len(match_stats'[list]) = Len(match_stats[list]) + 1
       /\ match_stats'[list][Len(match_stats'[list])]["name"] = row["name"]
       /\ players_df' = players_df
       /\ match_stats'[exact] = match_stats[exact]
       /\ match_stats'[fuzzy] = match_stats[fuzzy]

\* C3: for each source, a row with several candidates none of which has the
\* row's team is appended to the unmatched list of the source; no roster
\* entry is modified and no matched counter is incremented.
C3_AmbiguousRowIsUnmatched ==
    [][ /\ FfpcStepping => NoTeamRule(ffpc_df[ffpc_i + 1], FfpcCols, "ffpc_unmatched",
                                      "ffpc_matched", "ffpc_fuzzy_matched")
        /\ UdStepping => NoTeamRule(underdog_df[ud_i + 1], UdCols, "underdog_unmatched",
                                    "underdog_matched", "underdog_fuzzy_matched") ]_vars

\* one completed step of a pass changes exactly one of the exact counter, the
\* fuzzy counter and the unmatched list of its source, by one
CountsOnce(exact, fuzzy, list) ==
    LET de == match_stats'[exact] - match_stats[exact]
        df == match_stats'[fuzzy] - match_stats[fuzzy]
        du == Len(match_stats'[list]) - Len(match_stats[list])
    IN  /\ {de, df, du} \subseteq {0, 1}
        /\ de + df + du = 1
        /\ SubSeq(match_stats'[list], 1, Len(match_stats[list])) = match_stats[list]

RowsAccounted ==
    Merging =>
        /\ match_stats["ffpc_matched"] + match_stats["ffpc_fuzzy_matched"]
             + Len(match_stats["ffpc_unmatched"]) = ffpc_i
        /\ match_stats["underdog_matched"] + match_stats["underdog_fuzzy_matched"]
             + Len(match_stats["underdog_unmatched"]) = ud_i
        /\ (pc \in {"underdog", "merged"} => ffpc_i = Len(ffpc_df))
        /\ (pc = "merged" => ud_i = Len(underdog_df))

\* C5: every ranking row a pass has processed caused exactly one of an
\* increment of the exact counter, an increment of the fuzzy counter and an
\* append to the unmatched list of its source; the three add up to the rows
\* processed, and after the pass to the rows of the table.
C5_EveryRowCountedOnce ==
    /\ []RowsAccounted
    /\ [][ /\ (FfpcStepping /\ ffpc_i' = ffpc_i + 1)
              => CountsOnce("ffpc_matched", "ffpc_fuzzy_matched", "ffpc_unmatched")
           /\ (UdStepping /\ ud_i' = ud_i + 1)
              => CountsOnce("underdog_matched", "underdog_fuzzy_matched",
                            "underdog_unmatched") ]_vars

\* both passes have run, and each has counted an exact match, or a fuzzy
\* match and an unmatched row
C5_Witness ==
    /\ pc = "merged"
    /\ match_stats["ffpc_fuzzy_matched"] = 1
    /\ Len(match_stats["ffpc_unmatched"]) = 1
    /\ match_stats["underdog_matched"] = 1
    /\ Len(match_stats["underdog_unmatched"]) = 1

RECURSIVE RunLoop(_, _, _, _)
\* a loop of merge_ranking_data over the rows k.. of a ranking table, from
\* the outcome o: it ends at the first row that raises
RunLoop(Step(_, _, _), o, rows, k) ==
    IF o.raised \/ k > Len(rows) THEN o
    ELSE RunLoop(Step, Step(o.df, o.stats, rows[k]), rows, k + 1)

\* the original roster, read off a table of any stage
Original(table) == [i \in DOMAIN table |-> [full_name |-> table[i]["full_name"],
                                            team |-> table[i]["team"]]]

\* the table carries the fields cols that the merge of one source alone
\* gives the roster
SourceApplied(table, Step(_, _, _), rows, cols) ==
    LET alone == RunLoop(Step, Outcome(Prepared(Original(table)), InitialStats, FALSE),
                         rows, 1)
    IN  ~alone.raised =>
            \A i \in DOMAIN table : \A k \in DOMAIN cols :
                /\ cols[k] \in DOMAIN table[i]
                /\ table[i][cols[k]] = alone.df[i][cols[k]]

FfpcFailed == ffpc_i < Len(ffpc_df)
UdFailed   == ffpc_i = Len(ffpc_df) /\ ud_i < Len(underdog_df)

\* C10: when the merge of one source fails, the matches of the other source
\* are still in the table that is exported, whichever source failed.
C10_OtherSourceStillMerged ==
    pc = "exported" =>
        /\ FfpcFailed => SourceApplied(exported, underdog_row_step, underdog_df, UdCols)
        /\ UdFailed => SourceApplied(exported, ffpc_row_step, ffpc_df, FfpcCols)

(***************************************************************************)
(* Properties of the normalizer.                                            *)
(***************************************************************************)
\* C4: normalize_player_name applied to an already normalized name returns
\* it unchanged.
C4_NormalizeIdempotent == n_pc = "twice" => n_twice = n_once

(***************************************************************************)
(* Properties of the player filter.                                         *)
(***************************************************************************)
FilterStepping == f_pc = "loop" /\ processed_count < Len(players_data)

\* the player the next step of the loop processes, and its positions
Current == players_data[processed_count + 1]
PositionsOf(player) == Get(player.fields, "fantasy_positions", ListOf(<<>>))

\* the step counts the player in one bucket and in no other, and builds no
\* roster entry
OnlyCounted(bucket) ==
    /\ filter_stats' = [filter_stats EXCEPT ![bucket] = @ + 1]
    /\ players_list' = players_list

\* the step builds the roster entry of the player and counts it as kept
KeptStep ==
    /\ filter_stats' = [filter_stats EXCEPT !["kept"] = @ + 1]
    /\ Len(players_list') = Len(players_list) + 1
    /\ SubSeq(players_list', 1, Len(players_list)) = players_list
    /\ players_list'[Len(players_list')]["player_id"] = processed_count + 1

\* C6: after process_players_data the six counters add up to the number of
\* players of the universe: every player is in exactly one bucket.
C6_OneBucketPerPlayer ==
    f_pc = "done" =>
        filter_stats["inactive_status"] + filter_stats["duplicate_name"]
          + filter_stats["no_fantasy_position"]
          + filter_stats["invalid_fantasy_position"]
          + filter_stats["data_errors"] + filter_stats["kept"]
        = Len(players_data)

\* C7: the rules are tried in the order inactive, duplicate, no fantasy
\* position: an inactive player (in any letter case) is counted as inactive
\* whatever its names and positions; otherwise a player with a duplicate
\* name is counted as duplicate; otherwise a player with an empty or absent
\* position list is counted as having no fantasy position.  Each such player
\* is in that bucket only and gets no roster entry.
C7_RulePrecedence ==
    [][ (FilterStepping /\ Current.type = "dict") =>
            IF IsInactive(Current.fields) THEN OnlyCounted("inactive_status")
            ELSE IF IsDuplicate(Current.fields) THEN OnlyCounted("duplicate_name")
            ELSE ~Truthy(PositionsOf(Current))
                     => OnlyCounted("no_fantasy_position") ]_vars

\* an inactive player with a duplicate name and a valid position, and an
\* active one without positions, have been counted
C7_Witness ==
    /\ f_pc = "done"
    /\ filter_stats["inactive_status"] = 1
    /\ filter_stats["no_fantasy_position"] = 1
    /\ \E i \in DOMAIN players_data :
          /\ players_data[i].type = "dict"
          /\ IsInactive(players_data[i].fields)
          /\ IsDuplicate(players_data[i].fields)
          /\ PositionsOf(players_data[i]) = ListOf(<<StrItem("QB")>>)

\* the player passes the inactive, duplicate and empty-list rules
PassesFirstRules(player) ==
    /\ player.type = "dict"
    /\ ~IsInactive(player.fields)
    /\ ~IsDuplicate(player.fields)
    /\ Truthy(PositionsOf(player))

\* the valid positions as the claim states them
ClaimedValid ==
    IF league_data.type = "dict" /\ "roster_positions" \in DOMAIN league_data.fields
    THEN {league_data.fields["roster_positions"][k] :
             k \in DOMAIN league_data.fields["roster_positions"]}
    ELSE {"QB", "RB", "WR", "TE", "K", "DEF"}

IsSequenceType(v) == v.type \in {"list", "tuple"}
HasValidPosition(v) ==
    \E k \in DOMAIN v.items :
        v.items[k].type = "str" /\ v.items[k].value \in ClaimedValid
AllStrings(v) == \A k \in DOMAIN v.items : v.items[k].type = "str"
HasUnhashable(v) == \E k \in DOMAIN v.items : v.items[k].type = "list"

\* C8 as stated: a player that passes the first three rules is kept if and
\* only if its fantasy_positions is a list with a position of the valid set
\* (the league's roster_positions, or the six default positions); every
\* other such player is counted as invalid position.
C8_KeptIffValidPosition ==
    [][ (FilterStepping /\ PassesFirstRules(Current)) =>
            IF IsSequenceType(PositionsOf(Current))
                  /\ HasValidPosition(PositionsOf(Current))
            THEN KeptStep
            ELSE OnlyCounted("invalid_fantasy_position") ]_vars

\* C8 amended: such a player gets a roster entry if and only if its
\* fantasy_positions is a list or tuple of strings with a position of the
\* valid set; it is counted as invalid position when the value is no list or
\* tuple, or is one without unhashable item and without valid position; any
\* other such player gets no entry and is counted as a data error.
C8_KeptIffValidStrings ==
    [][ (FilterStepping /\ PassesFirstRules(Current)) =>
            LET v == PositionsOf(Current)
            IN  IF ~IsSequenceType(v)
                THEN OnlyCounted("invalid_fantasy_position")
                ELSE IF HasUnhashable(v)
                THEN /\ players_list' = players_list
                     /\ filter_stats'["data_errors"] = filter_stats["data_errors"] + 1
                     /\ filter_stats'["invalid_fantasy_position"]
                           = filter_stats["invalid_fantasy_position"]
                ELSE IF ~HasValidPosition(v)
                THEN OnlyCounted("invalid_fantasy_position")
                ELSE IF AllStrings(v)
                THEN KeptStep
                ELSE /\ players_list' = players_list
                     /\ filter_stats'["data_errors"] = filter_stats["data_errors"] + 1
                     /\ filter_stats'["invalid_fantasy_position"]
                           = filter_stats["invalid_fantasy_position"] ]_vars

\* under a league with roster_positions a player of one of them is kept and
\* a player of the default positions only is counted as invalid
C8_Witness ==
    /\ f_pc = "done"
    /\ "roster_positions" \in DOMAIN league_data.fields
    /\ filter_stats["invalid_fantasy_position"] = 1
    /\ \E i \in DOMAIN returned_df : returned_df[i]["fantasy_positions"] = <<"LB", "DL">>
    /\ \E i \in DOMAIN players_data :
           PositionsOf(players_data[i]) = ListOf(<<StrItem("QB")>>)

\* the record is counted as a data error
IsBadRecord(player) ==
    process_player(player, 0, valid_fantasy_positions, InitialFilterStats,
                   <<>>).stats["data_errors"] = 1

RECURSIVE FilterOver(_, _, _)
\* the loop over the players ids[k..] alone, from the state acc
FilterOver(ids, k, acc) ==
    IF k > Len(ids) THEN acc
    ELSE FilterOver(ids, k + 1,
                    process_player(players_data[ids[k]], ids[k],
                                   valid_fantasy_positions, acc.stats, acc.list))

\* the universe without its bad records
GoodIds ==
    SelectSeq([i \in DOMAIN players_data |-> i],
              LAMBDA i : ~IsBadRecord(players_data[i]))

\* C9: a malformed record never aborts the batch: it is counted as a data
\* error and gets no roster entry, and all the other players are processed
\* and classified as they are in the universe without the bad records.
C9_BadRecordIsIsolated ==
    (f_pc = "done" /\ players_data # <<>>) =>
        LET without == FilterOver(GoodIds, 1, Filtered(InitialFilterStats, <<>>))
        IN  /\ processed_count = Len(players_data)
            /\ filter_stats["data_errors"] =
                  Cardinality({i \in DOMAIN players_data : IsBadRecord(players_data[i])})
            /\ \A k \in DOMAIN returned_df :
                  ~IsBadRecord(players_data[returned_df[k]["player_id"]])
            /\ returned_df = without.list
            /\ \A b \in {"inactive_status", "duplicate_name", "no_fantasy_position",
                         "invalid_fantasy_position"} :
                  filter_stats[b] = without.stats[b]

\* a record that raised was followed by a player that was kept
C9_Witness ==
    /\ f_pc = "done"
    /\ Len(players_data) = 2
    /\ players_data[1].type = "dict"
    /\ IsBadRecord(players_data[1])
    /\ Len(returned_df) = 1
    /\ returned_df[1]["player_id"] = 2

(***************************************************************************)
(* Properties of the fuzzy matcher.                                         *)
(***************************************************************************)
\* the similarity of the ranking name and the roster entry i
Similarity(i) ==
    ratio(normalize_player_name(fz_name),
          normalize_player_name(fz_df[i]["full_name"]))

\* the roster entries at or above the threshold
Eligible == {i \in DOMAIN fz_df : RatioGE(Similarity(i), fz_threshold)}

\* C12: the fuzzy matcher returns the roster entry of the highest similarity
\* among those at or above the threshold, the first of them in table order
\* when several share it, and no match when no entry reaches the threshold.
C12_FirstOfTheBest ==
    fz_pc = "done" =>
        IF Eligible = {} THEN fz_result[1] = NoMatch
        ELSE /\ fz_result[1] \in Eligible
             /\ \A j \in Eligible :
                   /\ RatioGE(Similarity(fz_result[1]), Similarity(j))
                   /\ RatioGE(Similarity(j), Similarity(fz_result[1]))
                         => fz_result[1] <= j

\* two entries share the highest similarity and the first was returned
C12_Witness ==
    /\ fz_pc = "done"
    /\ Len(fz_df) = 2
    /\ Eligible = {1, 2}
    /\ fz_df[1]["team"] # fz_df[2]["team"]
    /\ Similarity(1) = Similarity(2)
    /\ Similarity(1) # <<1, 1>> /\ Similarity(1)[1] # Similarity(1)[2]
    /\ fz_result[1] = 1

\* C20: fuzzy_match_players returns the pair of the matched index and the
\* score of that match, and in the no-match case the pair of the absent
\* value and the number 0.
C20_NoMatchIsNoneAndZero ==
    fz_pc = "done" =>
        IF fz_result[1] # NoMatch
        THEN fz_result[2] = Number(Similarity(fz_result[1]))
        ELSE /\ fz_result[2].kind = "number"
             /\ fz_result[2].value[1] = 0

(***************************************************************************)
(* The worked examples of the normalizer, and its suffix rule.              *)
(***************************************************************************)
PatrickMahomesJr ==
    <<"P","a","t","r","i","c","k"," ","M","a","h","o","m","e","s"," ","J","r",".">>
patrick_mahomes ==
    <<"p","a","t","r","i","c","k"," ","m","a","h","o","m","e","s">>
JaMarrChase == <<"J","a","'","M","a","r","r"," ","C","h","a","s","e">>
jamarr_chase == <<"j","a","m","a","r","r"," ","c","h","a","s","e">>
KennethWalker == <<"K","e","n","n","e","t","h"," ","W","a","l","k","e","r">>
ken_walker == <<"k","e","n"," ","w","a","l","k","e","r">>

\* C18: normalize of Patrick Mahomes Jr. equals normalize of patrick
\* mahomes; Ja'Marr Chase gives jamarr chase; Kenneth Walker gives ken
\* walker; the empty name gives the empty string.
C18_WorkedExamples ==
    n_pc = "once" =>
        /\ n_name \in {PatrickMahomesJr, patrick_mahomes} => n_once = patrick_mahomes
        /\ n_name = JaMarrChase => n_once = jamarr_chase
        /\ n_name = KennethWalker => n_once = ken_walker
        /\ n_name = <<>> => n_once = <<>>

\* Ja'Marr Chase has been normalized
C18_Witness ==
    /\ n_pc = "once"
    /\ n_name = JaMarrChase
    /\ n_once = jamarr_chase

\* the removal of the first suffix of the list the string ends with, and of
\* nothing after it
StripFirstSuffix(s) ==
    LET hits == {k \in DOMAIN suffixes : EndsWith(s, suffixes[k])}
    IN  IF hits = {} THEN s
        ELSE StrStrip(SubSeq(s, 1, Len(s) - Len(suffixes[First(hits)])))

\* the normalizer with that suffix rule
NormalizeStrippingOne(name) ==
    IF name = <<>> THEN <<>>
    ELSE JoinSplit(ApplyReplacements(RemovePunctuation(
             StripFirstSuffix(DropMn(NFD(StrStrip(StrLower(name)))))), 1))

\* C19: the normalizer strips at most one trailing suffix: the first suffix
\* of the ordered list that the lowercased name ends with, and no further
\* suffix after it.
C19_AtMostOneSuffix ==
    n_pc = "once" => n_once = NormalizeStrippingOne(n_name)

(***************************************************************************)
(* Properties of the merge: one ranking row.                                *)
(***************************************************************************)
\* the loop body raises on the ranking row (which entry a row matches, and
\* so whether it raises, depends on the names and teams of the roster only)
Raises(Step(_, _, _), table, row) ==
    Step(Prepared(Original(table)), InitialStats, row).raised

NotRaising(Step(_, _, _), table, rows) ==
    Cardinality({j \in DOMAIN rows : ~Raises(Step, table, rows[j])})

\* C11: an error raised while one ranking row is processed is not fatal to
\* the batch: the other rows of that source are still processed, and their
\* matches and statistics are kept.
C11_RowErrorIsNotFatal ==
    pc = "exported" =>
        /\ FfpcFailed =>
              match_stats["ffpc_matched"] + match_stats["ffpc_fuzzy_matched"]
                + Len(match_stats["ffpc_unmatched"])
              = NotRaising(ffpc_row_step, exported, ffpc_df)
        /\ UdFailed =>
              match_stats["underdog_matched"] + match_stats["underdog_fuzzy_matched"]
                + Len(match_stats["underdog_unmatched"])
              = NotRaising(underdog_row_step, exported, underdog_df)

\* no roster entry has the normalized name of the ranking row, and none is
\* at or above the fuzzy threshold
NoCandidate(row) ==
    /\ Candidates(row) = {}
    /\ \A i \in DOMAIN players_df :
          ~RatioGE(ratio(normalize_player_name(row["name"]),
                         normalize_player_name(players_df[i]["full_name"])),
                   DefaultThreshold)

\* a step on such a row appends it to the unmatched list, under its own
\* name, team and position, and changes nothing else
UnmatchedRule(row, list) ==
    NoCandidate(row) =>
        /\ Len(match_stats'[list]) = Len(match_stats[list]) + 1
        /\ LET entry == match_stats'[list][Len(match_stats'[list])]
           IN  /\ entry["name"] = row["name"]
               /\ entry["team"] = row["team"]
               /\ entry["position"] = row["position"]
               /\ match_stats' = [match_stats EXCEPT ![list] = Append(@, entry)]
        /\ players_df' = players_df

\* C13: a ranking row with no exact match and no roster entry at or above
\* the fuzzy threshold is appended once to the unmatched list of its source,
\* with its original name, its team and its position, and no roster entry is
\* modified.
C13_UnmatchedRowIsListed ==
    [][ /\ FfpcStepping => UnmatchedRule(ffpc_df[ffpc_i + 1], "ffpc_unmatched")
        /\ UdStepping => UnmatchedRule(underdog_df[ud_i + 1], "underdog_unmatched") ]_vars

\* both sources have listed the row Zz, whose normalized name is zz
C13_Witness ==
    /\ pc = "merged"
    /\ Len(match_stats["ffpc_unmatched"]) = 1
    /\ match_stats["ffpc_unmatched"][1]["name"] = <<"Z", "z">>
    /\ Len(match_stats["underdog_unmatched"]) = 1
    /\ match_stats["underdog_unmatched"][1]["name"] = <<"Z", "z">>

\* a step on a ranking row with exactly one candidate: the candidate gets
\* the four fields of the row, the exact counter of the source goes up by
\* one, and nothing else changes
ExactRule(row, cols, exact) ==
    (HasColumns(row, cols) /\ Cardinality(Candidates(row)) = 1) =>
        LET i == First(Candidates(row))
        IN  /\ players_df' =
                  [players_df EXCEPT ![i] =
                      [c \in DOMAIN @ |->
                          IF c \in {cols[k] : k \in DOMAIN cols} THEN row[c] ELSE @[c]]]
            /\ match_stats' = [match_stats EXCEPT ![exact] = @ + 1]

\* C14: when exactly one roster entry has the normalized name of the ranking
\* row, the four fields of the row are copied onto it and the exact counter
\* of the source is incremented; the fields of the other source on that
\* entry and all ranking fields of the other entries are unchanged.
C14_SingleCandidateIsTheMatch ==
    [][ /\ FfpcStepping => ExactRule(ffpc_df[ffpc_i + 1], FfpcCols, "ffpc_matched")
        /\ UdStepping => ExactRule(underdog_df[ud_i + 1], UdCols, "underdog_matched") ]_vars

\* a roster of two names, the first matched by both sources and the second
\* by none
C14_Witness ==
    /\ pc = "merged"
    /\ Len(players_df) = 2
    /\ match_stats["ffpc_matched"] = 1
    /\ match_stats["underdog_matched"] = 1
    /\ \E j \in DOMAIN ffpc_df : FieldsOf(players_df[1], FfpcCols, ffpc_df[j])
    /\ \E j \in DOMAIN underdog_df : FieldsOf(players_df[1], UdCols, underdog_df[j])
    /\ FieldsAbsent(players_df[2], ranking_columns)
    /\ players_df[1]["full_name"] # players_df[2]["full_name"]

(***************************************************************************)
(* Properties of the merge: matches of one row, the count of players with   *)
(* rankings, and a second merge.                                            *)
(***************************************************************************)
\* the roster entries a step changes
Changed == {i \in DOMAIN players_df : players_df'[i] # players_df[i]}

\* a step writes onto at most one roster entry and increments at most one of
\* the two matched counters of the source, by one
AtMostOneMatch(exact, fuzzy) ==
    /\ Cardinality(Changed) <= 1
    /\ match_stats'[exact] - match_stats[exact] \in {0, 1}
    /\ match_stats'[fuzzy] - match_stats[fuzzy] \in {0, 1}
    /\ match_stats'[exact] + match_stats'[fuzzy]
          <= match_stats[exact] + match_stats[fuzzy] + 1

\* the roster entries named Hollywood Brown
Hollywoods == {i \in DOMAIN players_df : players_df[i]["full_name"] = HollywoodBrown}

\* a step on the row Marquise Brown with one Hollywood Brown in the roster:
\* one exact match, on that entry
NicknameRule(row, cols, exact, fuzzy) ==
    (row["name"] = MarquiseBrown /\ Cardinality(Hollywoods) = 1) =>
        /\ match_stats'[exact] = match_stats[exact] + 1
        /\ match_stats'[fuzzy] = match_stats[fuzzy]
        /\ FieldsOf(players_df'[First(Hollywoods)], cols, row)
        /\ Changed \subseteq Hollywoods

\* C15: one ranking row never produces two matches: a step writes onto at
\* most one roster entry and increments at most one of the exact and fuzzy
\* counters; Marquise Brown against a roster with Hollywood Brown gives one
\* match, an exact one.
C15_OneMatchPerRow ==
    [][ /\ FfpcStepping =>
              /\ AtMostOneMatch("ffpc_matched", "ffpc_fuzzy_matched")
              /\ NicknameRule(ffpc_df[ffpc_i + 1], FfpcCols,
                              "ffpc_matched", "ffpc_fuzzy_matched")
        /\ UdStepping =>
              /\ AtMostOneMatch("underdog_matched", "underdog_fuzzy_matched")
              /\ NicknameRule(underdog_df[ud_i + 1], UdCols,
                              "underdog_matched", "underdog_fuzzy_matched") ]_vars

\* Marquise Brown was the only FFPC row and Hollywood Brown has its fields
C15_Witness ==
    /\ pc = "merged"
    /\ merge_run = "first"
    /\ Len(ffpc_df) = 1
    /\ ffpc_df[1]["name"] = MarquiseBrown
    /\ Len(players_df) = 2
    /\ players_df[2]["full_name"] = HollywoodBrown
    /\ FieldsOf(players_df[2], FfpcCols, ffpc_df[1])
    /\ FieldsAbsent(players_df[1], FfpcCols)
    /\ match_stats["ffpc_matched"] = 1
    /\ match_stats["ffpc_fuzzy_matched"] = 0

\* the roster entries with a present ranking field, of the eight
WithAnyRanking(table) ==
    {i \in DOMAIN table :
        \E k \in DOMAIN ranking_columns : notna(table[i][ranking_columns[k]])}

\* C16: after both sources are processed, players_with_rankings is the
\* number of roster entries with at least one present ranking field among
\* the eight fields of the two sources.
C16_PlayersWithAnyRanking ==
    pc = "merged" =>
        match_stats["players_with_rankings"] = Cardinality(WithAnyRanking(players_df))

\* C17: a second merge with the same roster and the same ranking tables,
\* given the table the first merge returned or the table it was passed,
\* returns the same roster fields and the same statistics as the first.
C17_SecondMergeIsTheSame ==
    (pc = "merged" /\ merge_run # "first") =>
        /\ players_df = first_result.df
        /\ match_stats = first_result.stats

\* a second merge of the table the first one was passed has ended, with an
\* exact match, a fuzzy match and an unmatched row
C17_Witness ==
    /\ pc = "merged"
    /\ merge_run = "passed"
    /\ match_stats["ffpc_matched"] = 1
    /\ match_stats["underdog_fuzzy_matched"] = 1
    /\ Len(match_stats["ffpc_unmatched"]) = 1
    /\ match_stats = first_result.stats

(***************************************************************************)
(* Properties of the merge: rows that select the same roster entry, and the *)
(* table that is exported.                                                  *)
(***************************************************************************)
\* the roster entry i holds the four fields of a row among the first n rows
\* that has no exact candidate: a row the fuzzy matcher matched to it
FuzzyHeld(i, rows, n, cols) ==
    \E j \in 1..n :
        /\ HasColumns(rows[j], cols)
        /\ Candidates(rows[j]) = {}
        /\ FieldsOf(players_df[i], cols, rows[j])

\* a step leaves the fields cols of the entry i as they are
FieldsKept(i, cols) ==
    \A k \in DOMAIN cols : players_df'[i][cols[k]] = players_df[i][cols[k]]

\* C21: once a ranking row has been fuzzy-matched to a roster entry and its
\* four fields written there, the fields stay as written while the later
\* rows of the same source are processed, rows that match exactly included.
C21_FuzzyMatchIsNotOverwritten ==
    [][ /\ FfpcStepping =>
              \A i \in DOMAIN players_df :
                  FuzzyHeld(i, ffpc_df, ffpc_i, FfpcCols) => FieldsKept(i, FfpcCols)
        /\ UdStepping =>
              \A i \in DOMAIN players_df :
                  FuzzyHeld(i, underdog_df, ud_i, UdCols) => FieldsKept(i, UdCols) ]_vars

\* C23: the table export_to_excel writes to the Players sheet never has the
\* normalized_name column, on every path through merge_ranking_data, the
\* path where the merge raises included.
C23_NormalizedNameIsNotExported ==
    pc = "exported" =>
        \A i \in DOMAIN exported : "normalized_name" \notin DOMAIN exported[i]

\* the roster entries the loop body writes onto for the ranking row: one
\* entry, or none (the entry depends on the names and teams of the roster
\* only)
Selected(Step(_, _, _), table, row) ==
    LET before == Prepared(Original(table))
        after == Step(before, InitialStats, row).df
    IN  {i \in DOMAIN table : after[i] # before[i]}

\* the rows of a ranking table that select the roster entry i
Selecting(Step(_, _, _), table, rows, i) ==
    {j \in DOMAIN rows : Selected(Step, table, rows[j]) = {i}}

\* the roster entries that carry ranking fields cols
Carrying(table, cols) == {i \in DOMAIN table : ~FieldsAbsent(table[i], cols)}

\* the last element of a non-empty set of row numbers
Last(S) == CHOOSE j \in S : \A k \in S : k <= j

\* after a pass: the entries carrying the fields of the source are at most
\* the matched rows, fewer when two rows selected one entry, and an entry
\* holds the fields of the last row that selected it
LastRowWins(Step(_, _, _), rows, cols, exact, fuzzy) ==
    /\ Cardinality(Carrying(players_df, cols))
          <= match_stats[exact] + match_stats[fuzzy]
    /\ \A i \in DOMAIN players_df :
          LET sel == Selecting(Step, players_df, rows, i)
          IN  /\ sel # {} => FieldsOf(players_df[i], cols, rows[Last(sel)])
              /\ Cardinality(sel) > 1 =>
                    Cardinality(Carrying(players_df, cols))
                       < match_stats[exact] + match_stats[fuzzy]
    /\ match_stats[exact] + match_stats[fuzzy]
          = Cardinality({j \in DOMAIN rows : Selected(Step, players_df, rows[j]) # {}})

\* C25: at the end of the pass of a source, the roster entries carrying its
\* fields are at most its exact plus fuzzy matches, and fewer when two rows
\* select the same entry: the entry holds the fields of the row processed
\* last and both rows are counted as matched.
C25_LastRowWins ==
    /\ pc \in {"underdog", "merged"} =>
          LastRowWins(ffpc_row_step, ffpc_df, FfpcCols,
                      "ffpc_matched", "ffpc_fuzzy_matched")
    /\ pc = "merged" =>
          LastRowWins(underdog_row_step, underdog_df, UdCols,
                      "underdog_matched", "underdog_fuzzy_matched")

\* a fuzzy match and then an exact match of the one roster entry, which
\* holds the fields of the second row
C25_Witness ==
    /\ pc = "merged"
    /\ Len(players_df) = 1
    /\ Len(ffpc_df) = 2
    /\ ffpc_df[1] # ffpc_df[2]
    /\ match_stats["ffpc_fuzzy_matched"] = 1
    /\ match_stats["ffpc_matched"] = 1
    /\ FieldsOf(players_df[1], FfpcCols, ffpc_df[2])
    /\ ~FieldsOf(players_df[1], FfpcCols, ffpc_df[1])

(***************************************************************************)
(* The kept counter of the player filter.                                   *)
(***************************************************************************)
\* C24: after process_players_data the kept counter equals the number of
\* roster entries of the returned table, for every player universe.
C24_KeptCountsTheEntries ==
    f_pc = "done" => filter_stats["kept"] = Len(returned_df)

(***************************************************************************)
(* The forms of a height.                                                   *)
(***************************************************************************)
\* the occurrences of a character in a string
Occurrences(s, c) == Cardinality({i \in DOMAIN s : s[i] = c})

\* the text before and after the one occurrence of a separator
Before(s, sep) == SubSeq(s, 1, (CHOOSE i \in DOMAIN s : s[i] = sep) - 1)
After(s, sep) == SubSeq(s, (CHOOSE i \in DOMAIN s : s[i] = sep) + 1, Len(s))

\* a string without the double quote it may end with
InchMarkDropped(s) ==
    IF s # <<>> /\ s[Len(s)] = "\"" THEN SubSeq(s, 1, Len(s) - 1) ELSE s

\* f'i or f'i", for digits f and digits i or none
IsFeetApostropheInches(s) ==
    /\ Occurrences(InchMarkDropped(s), "'") = 1
    /\ IsDigit(Before(InchMarkDropped(s), "'"))
    /\ \/ After(InchMarkDropped(s), "'") = <<>>
       \/ IsDigit(After(InchMarkDropped(s), "'"))

\* f-i, for digits f and digits i
IsFeetDashInches(s) ==
    /\ Occurrences(s, "-") = 1
    /\ IsDigit(Before(s, "-"))
    /\ IsDigit(After(s, "-"))

\* digits with a decimal point among them
IsDecimal(s) ==
    /\ Occurrences(s, ".") = 1
    /\ Before(s, ".") \o After(s, ".") # <<>>
    /\ IsDigit(Before(s, ".") \o After(s, ".") )

\* 12 * f + i
Inches(f, i) == IntOf(12 * DigitsValue(f) + DigitsValue(i))

\* the height the four forms give a stripped string, None for every string
\* that has none of the forms
HeightByForm(s) ==
    IF IsDigit(s) THEN IntOf(DigitsValue(s))
    ELSE IF IsFeetApostropheInches(s)
         THEN Inches(Before(InchMarkDropped(s), "'"),
                     After(InchMarkDropped(s), "'"))
    ELSE IF IsFeetDashInches(s) THEN Inches(Before(s, "-"), After(s, "-"))
    ELSE IF IsDecimal(s)
         THEN FloatOf(DigitsValue(Before(s, ".") \o After(s, ".")),
                      Pow10(Len(After(s, "."))))
    ELSE NoneValue

\* C22: parse_height gives a string of digits d the height d, a string f'i
\* or f'i" the height 12f + i (i = 0 when missing), a string f-i the height
\* 12f + i, a decimal its value, and None to an absent value, an empty
\* string and every other string; it raises for no input.
C22_HeightByForm ==
    h_pc = "done" =>
        h_result = IF height_value.type = "NoneType" THEN NoneValue
                   ELSE HeightByForm(StrStrip(height_value.text))

\* feet and inches as int() reads them: white space around and a sign
\* allowed, no inches counted as 0, None when one of them is no integer
InchesAsRead(f, i) ==
    IF IsNumber(int(f)) /\ (i = <<>> \/ IsNumber(int(i)))
    THEN IntOf(12 * int(f).n + (IF i = <<>> THEN 0 ELSE int(i).n))
    ELSE NoneValue

\* a string without its double quotes when it has an apostrophe
QuotesDropped(s) ==
    IF Occurrences(s, "'") > 0 THEN SelectSeq(s, LAMBDA c : c # "\"") ELSE s

\* the height of a stripped, non-empty string
HeightAsRead(s) ==
    IF IsDigit(s) THEN IntOf(DigitsValue(s))
    ELSE IF Occurrences(QuotesDropped(s), "'") = 1
         THEN InchesAsRead(Before(QuotesDropped(s), "'"),
                           After(QuotesDropped(s), "'"))
    ELSE IF Occurrences(QuotesDropped(s), "-") = 1
         THEN InchesAsRead(Before(QuotesDropped(s), "-"),
                           After(QuotesDropped(s), "-"))
    ELSE IF IsNumber(float(QuotesDropped(s))) THEN float(QuotesDropped(s))
    ELSE NoneValue

\* C22, amended: parse_height gives None to an absent value and to a string
\* of white space; a string of digits d the height d; otherwise a string
\* with an apostrophe loses its double quotes wherever they stand, and one
\* apostrophe between f and i gives 12f + i; otherwise one dash between f
\* and i gives 12f + i; f and i are read as int() reads them (white space
\* around and a sign allowed), a missing i is 0 in both forms, and the
\* height is None when f or i is no integer (so for -6, a negative number);
\* otherwise the string is read as a float, None when it is none.  It
\* raises for no input.
C22_HeightAsRead ==
    h_pc = "done" =>
        h_result = IF height_value.type = "NoneType" THEN NoneValue
                   ELSE IF StrStrip(height_value.text) = <<>> THEN NoneValue
                   ELSE HeightAsRead(StrStrip(height_value.text))

\* 6'2" parsed to 74 inches
C22_Witness ==
    /\ h_pc = "done"
    /\ height_value = HeightStr(<<"6", "'", "2", "\"">>)
    /\ h_result = IntOf(74)

(***************************************************************************)
(* The cache of get_data.                                                   *)
(***************************************************************************)
\* C26: a call of get_data with use_cache, made when the cache file holds a
\* loadable snapshot, returns that snapshot without an API request, whatever
\* its other arguments; every other call (use_cache false, no cache file, or
\* a cache file that cannot be loaded) fetches from the API and, when the
\* disk takes it, leaves the fetched data in the cache file; if the fetch
\* raises, the cache file is as it was before the call.
C26_CachedOrFetched ==
    calls > 0 =>
        IF last_call.call.use_cache /\ last_call.call.before.kind = "snapshot"
        THEN /\ last_call.result = ReturnData(last_call.call.before.data)
             /\ last_call.requests = 0
        ELSE /\ last_call.fetched.kind # "not called"
             /\ last_call.fetched.kind = "raised" =>
                    cache_file = last_call.call.before
             /\ last_call.fetched.kind = "data" /\ last_call.save = "written" =>
                    /\ cache_file = SnapshotFile(last_call.fetched.data)
                    /\ last_call.result = last_call.fetched

====
